---- MODULE Spec2Model ----
(***************************************************************************)
(* State-machine model of the multi-tenant admin panel: the datastore      *)
(* tables (drizzle schema), the persistence helpers (db.ts), the admin     *)
(* identity service (auth.ts), the typed procedure router (routers.ts) and *)
(* the API-key authenticated REST facade (api.ts).                         *)
(*                                                                         *)
(* Every router procedure and every REST endpoint is one action: the       *)
(* middleware, the ownership check and the datastore call it makes happen  *)
(* in one step; SpecRace alone runs the REST middleware and the handler as *)
(* two steps, with key revocation in between.  The datastore is connected  *)
(* in the router, REST and admin identity specifications; SpecUsers,       *)
(* SpecDown, SpecHandle and SpecRestDown call the helpers and endpoints on *)
(* a server without a handle, or whose handle is yet to be made.           *)
(***************************************************************************)
EXTENDS Integers, FiniteSets, Sequences, TLC

VARIABLES users, adminUsers, projects, apiKeys, dynamicData, nextId, now, resp,
          _db, DATABASE_URL, inFlight

vars == <<users, adminUsers, projects, apiKeys, dynamicData, nextId, now, resp,
          _db, DATABASE_URL, inFlight>>

tables == <<users, adminUsers, projects, apiKeys, dynamicData>>

\* inFlight: the REST request that authenticateApiKey has passed on with
\* next() and whose route handler has not run yet

\* the module-level drizzle handle of db.ts and the environment variable it is
\* made from
connection == <<_db, DATABASE_URL>>

---------------------------------------------------------------------------
(* Bounds of the model *)

\* rows the router specification creates in each table
MaxProjects == 1

MaxKeys == 1

MaxData == 1

\* rows the REST specification creates in the dynamic-data table
MaxRestData == 2

\* clock ticks of the admin identity specifications
MaxTime == 2

---------------------------------------------------------------------------
(* Values *)

\* SQL NULL / JavaScript undefined for a text column or an optional string
NULL == "null"


\* ctx.adminSession is JSON.parse of an unsigned cookie: null, or an object
\* whose id is whatever the cookie says.  id 0 stands for an object without a
\* usable id (undefined and 0 are both falsy and equal to no row's owner id).
NoSession == [tag |-> "null"]

AdminSession(i) == [tag |-> "session", id |-> i]

\* the ids a session cookie may name: none usable, admin 1, admin 2
SessionIds == {0, 1, 2}

CtxSessions == {NoSession} \cup {AdminSession(i) : i \in SessionIds}

\* the request contexts tried: every session with an end-user identity, and
\* an admin session without one
Contexts ==
  [user : {"u1"}, adminSession : CtxSessions] \cup
  [user : {NULL}, adminSession : {AdminSession(1)}]

\* ctx.adminSession?.id
SessionId(ctx) == IF ctx.adminSession = NoSession THEN 0 ELSE ctx.adminSession.id

\* ids a call may name; an id is absent until its row is created
ProjectIds == 1..MaxProjects

KeyIds == 1..MaxKeys

DataIds == 1..MaxData

RestDataIds == 1..MaxRestData

ProjectNames == {"P1"}

\* A JSON value as the code sees it: t is its kind and, for an object, kv its
\* members <<key, value>> in the order the JavaScript object holds them.
\* Doc1 holds its keys in an order that is not the sorted one.
Doc1 == [t |-> "object", kv |-> <<<<"b", "1">>, <<"a", "2">>>>]

Doc2 == [t |-> "object", kv |-> <<<<"a", "3">>>>]

\* truthy JSON payloads of a DynamicDatum
Payloads == {Doc1, Doc2}

\* a data field that is not there (undefined)
NoData == [t |-> "undefined", kv |-> <<>>]

\* a data field that is there and falsy: the JSON value false (0, "" and null
\* behave alike)
FalseData == [t |-> "false", kv |-> <<>>]

\* !data
falsy(data) == data.t \in {"undefined", "false"}

\* the key order of a MySQL JSON document
JsonKeyOrder == <<"a", "b">>

\* variant: the document keeps its first member only
jsonColumn_firstMember(data) ==
  [t |-> data.t, kv |-> IF data.kv = <<>> THEN <<>> ELSE <<Head(data.kv)>>]

\* json("data"): the value is written with JSON.stringify into a MySQL JSON
\* column, which stores an object with its keys sorted, and read back with
\* JSON.parse
jsonColumn(data) ==
  LET has(k) == \E i \in DOMAIN data.kv : data.kv[i][1] = k
      at(k) == CHOOSE i \in DOMAIN data.kv : data.kv[i][1] = k
      keys == SelectSeq(JsonKeyOrder, has)
  IN  [t |-> data.t, kv |-> [j \in 1..Len(keys) |-> data.kv[at(keys[j])]]]

\* opaque key tokens the generator of createApiKey can produce
KeyTokens == {"sk_1", "sk_2"}

DefaultPermissions == {"read", "write"}

\* the optional permissions argument: not supplied, or a list (an empty list
\* is a list: [] is truthy)
NoPermissions == [given |-> FALSE, list |-> {}]

PermissionList(l) == [given |-> TRUE, list |-> l]

---------------------------------------------------------------------------
(* The response of the last call: which operation, under which context or *)
(* key header, with which input, and what it answered.                    *)

Reply(kind, op, ctx, input, code, msg, result) ==
  [kind |-> kind, op |-> op, ctx |-> ctx, input |-> input, code |-> code,
   msg |-> msg, result |-> result]

\* a call made outside a request: no context or key header goes with it
NoContext == [none |-> TRUE]

NoReply == Reply("none", "none", NoContext, NULL, "none", NULL, {})

\* a router procedure's answer: "OK" or the TRPCError code
Trpc(op, ctx, input, code, result) == Reply("trpc", op, ctx, input, code, NULL, result)

\* a REST endpoint's answer: ctx is the x-api-key header, code the HTTP status
Rest(op, header, input, code, msg, result) ==
  Reply("rest", op, header, input, code, msg, result)

---------------------------------------------------------------------------
(* Persistence Access Layer (db.ts) *)

\* getProjectById: the set holding the row, empty for "not found"
getProjectById(projectId) == {p \in projects : p.id = projectId}

\* variant: no filter on the owner
getProjectsByAdminId_all(adminUserId) == projects

getProjectsByAdminId(adminUserId) == {p \in projects : p.adminUserId = adminUserId}

\* createProject: INSERT with isActive true and an auto-increment id
createProject(adminUserId, name, description, schema) ==
  /\ projects' = projects \cup
       {[id |-> nextId.projects, adminUserId |-> adminUserId, name |-> name,
         description |-> description, schema |-> schema, isActive |-> TRUE]}
  /\ nextId' = [nextId EXCEPT !.projects = @ + 1]

\* variant: an update also brings a soft-deleted project back
updateProject_reactivates(projectId, updates) ==
  projects' = {IF p.id = projectId
                 THEN [p EXCEPT
                         !.name = IF updates.name = NULL THEN @ ELSE updates.name,
                         !.isActive = TRUE]
                 ELSE p : p \in projects}

\* updateProject: UPDATE ... SET the supplied (not undefined) fields
updateProject(projectId, updates) ==
  projects' = {IF p.id = projectId
                 THEN [p EXCEPT
                         !.name = IF updates.name = NULL THEN @ ELSE updates.name,
                         !.description = IF updates.description = NULL THEN @
                                         ELSE updates.description,
                         !.schema = IF updates.schema = NULL THEN @ ELSE updates.schema]
                 ELSE p : p \in projects}

\* updateProject with every field undefined: the query builder has nothing to
\* SET and the call throws before any statement is sent
noValuesToSet(updates) ==
  updates.name = NULL /\ updates.description = NULL /\ updates.schema = NULL

\* variant: the row is removed
deleteProject_removesRow(projectId) ==
  projects' = {p \in projects : p.id # projectId}

\* deleteProject: soft delete
deleteProject(projectId) ==
  projects' = {IF p.id = projectId THEN [p EXCEPT !.isActive = FALSE] ELSE p
               : p \in projects}

\* variant: the key column has no UNIQUE index
createApiKeyThrows_noIndex(key) == FALSE

\* createApiKey: key is the generated token; the UNIQUE index on the key column
\* rejects a token that is already stored (the INSERT throws, nothing is written)
createApiKeyThrows(key) == \E k \in apiKeys : k.key = key

createApiKey(projectId, name, permissions, key) ==
  IF createApiKeyThrows(key)
    THEN UNCHANGED <<apiKeys, nextId>>
    ELSE /\ apiKeys' = apiKeys \cup
              {[id |-> nextId.apiKeys, projectId |-> projectId, key |-> key,
                name |-> name,
                permissions |-> IF permissions.given THEN permissions.list
                                ELSE DefaultPermissions,
                isActive |-> TRUE]}
         /\ nextId' = [nextId EXCEPT !.apiKeys = @ + 1]

getApiKeysByProjectId(projectId) == {k \in apiKeys : k.projectId = projectId}

\* getApiKeyByKey: the set holding the row, empty for "not found"
getApiKeyByKey(key) == {k \in apiKeys : k.key = key}

\* variant: revocation removes the row
revokeApiKey_deletesRow(apiKeyId) ==
  apiKeys' = {k \in apiKeys : k.id # apiKeyId}

\* revokeApiKey: clears the active flag of the row with that id, if any
revokeApiKey(apiKeyId) ==
  apiKeys' = {IF k.id = apiKeyId THEN [k EXCEPT !.isActive = FALSE] ELSE k
              : k \in apiKeys}

\* insertDynamicData: isPublic is the optional flag ({} when not supplied)
insertDynamicData(projectId, data, userId, dataType, isPublic) ==
  /\ dynamicData' = dynamicData \cup
       {[id |-> nextId.dynamicData, projectId |-> projectId, userId |-> userId,
         dataType |-> dataType, data |-> jsonColumn(data),
         isPublic |-> (TRUE \in isPublic),
         updatedAt |-> now]}
  /\ nextId' = [nextId EXCEPT !.dynamicData = @ + 1]

\* getDynamicDataByProjectId: the project's rows in primary-key order, the first
\* `offset` skipped and at most `limit` returned
getDynamicDataByProjectId(projectId, limit, offset) ==
  LET rows == {d \in dynamicData : d.projectId = projectId}
      rank(d) == Cardinality({e \in rows : e.id <= d.id})
  IN  {d \in rows : rank(d) > offset /\ rank(d) <= offset + limit}

getDynamicDataById(dataId) == {d \in dynamicData : d.id = dataId}

\* updateDynamicData: replaces the payload of the row with that id, whatever
\* project it belongs to
updateDynamicData(dataId, data) ==
  dynamicData' = {IF d.id = dataId THEN [d EXCEPT !.data = jsonColumn(data),
                                                           !.updatedAt = now]
                  ELSE d : d \in dynamicData}

\* deleteDynamicData: removes the row with that id, whatever project it belongs to
deleteDynamicData(dataId) ==
  dynamicData' = {d \in dynamicData : d.id # dataId}

\* searchDynamicData: userId / dataType filters apply only when truthy
searchDynamicData(projectId, userId, dataType) ==
  {d \in dynamicData :
     /\ d.projectId = projectId
     /\ (userId # NULL => d.userId = userId)
     /\ (dataType # NULL => d.dataType = dataType)}

\* drizzle(url): the handle made from a connection string; it throws on a
\* malformed one, which getDb catches, leaving the handle null (NULL here)
drizzle(url) ==
  IF url = "malformed" THEN NULL
  ELSE IF url = "mysql://db" THEN "drizzle"
  ELSE "drizzle2"

\* variant: the handle is made anew from the connection string at every call
getDb_recreates ==
  IF DATABASE_URL # NULL THEN drizzle(DATABASE_URL) ELSE NULL

\* getDb: the handle every helper works with, kept in _db once made
getDb ==
  IF _db # NULL THEN _db
  ELSE IF DATABASE_URL # NULL THEN drizzle(DATABASE_URL)
  ELSE NULL

\* line 10, the condition under which a call of getDb calls drizzle()
drizzleCalled == _db = NULL /\ DATABASE_URL # NULL

\* a helper of db.ts or auth.ts called directly: what it returned or threw
Db(op, input, code, msg, result) ==
  Reply("db", op, NoContext, input, code, msg, result)

\* if (!db) throw new Error("Database not available")
DatabaseNotAvailable(op, input) ==
  /\ resp' = Db(op, input, "throws", "Database not available", {})
  /\ _db' = getDb
  /\ UNCHANGED <<tables, nextId, now, inFlight, DATABASE_URL>>

---------------------------------------------------------------------------
(* End users (db.ts: upsertUser, getUserByOpenId) *)

\* a field of the argument that was not supplied
UNDEFINED == "undefined"

\* ENV.ownerOpenId
ownerOpenId == "owner"

\* variant: no identifier is refused
openIdMissing_never(user) == FALSE

\* !user.openId: missing or empty
openIdMissing(user) == user.openId = UNDEFINED \/ user.openId = ""

\* the row with that openId (openId is UNIQUE)
userByOpenId(openId) == {u \in users : u.openId = openId}

\* the role upsertUser writes: the supplied one, else admin for the configured
\* owner, else none (UNDEFINED)
roleToSet(user) ==
  IF user.role # UNDEFINED THEN user.role
  ELSE IF user.openId = ownerOpenId THEN "admin"
  ELSE UNDEFINED

\* Object.keys(updateSet).length === 0 ; a lastSignedIn of 0 is one not supplied
updateSetEmpty(user) ==
  /\ user.name = UNDEFINED
  /\ user.email = UNDEFINED
  /\ user.loginMethod = UNDEFINED
  /\ user.lastSignedIn = 0
  /\ roleToSet(user) = UNDEFINED

\* the row INSERT writes: columns not given take their defaults (NULL texts,
\* role "user"); lastSignedIn is the supplied one or new Date()
userValues(user) ==
  [id |-> nextId.users, openId |-> user.openId,
   name |-> IF user.name = UNDEFINED THEN NULL ELSE user.name,
   email |-> IF user.email = UNDEFINED THEN NULL ELSE user.email,
   loginMethod |-> IF user.loginMethod = UNDEFINED THEN NULL ELSE user.loginMethod,
   role |-> IF roleToSet(user) = UNDEFINED THEN "user" ELSE roleToSet(user),
   lastSignedIn |-> IF user.lastSignedIn = 0 THEN now ELSE user.lastSignedIn]

\* the row ON DUPLICATE KEY UPDATE leaves: the columns of updateSet replaced
userUpdated(u, user) ==
  [u EXCEPT
     !.name = IF user.name = UNDEFINED THEN @ ELSE user.name,
     !.email = IF user.email = UNDEFINED THEN @ ELSE user.email,
     !.loginMethod = IF user.loginMethod = UNDEFINED THEN @ ELSE user.loginMethod,
     !.role = IF roleToSet(user) = UNDEFINED THEN @ ELSE roleToSet(user),
     !.lastSignedIn = IF user.lastSignedIn # 0 THEN user.lastSignedIn
                      ELSE IF updateSetEmpty(user) THEN now
                      ELSE @]

\* upsertUser
upsertUser(user) ==
  IF openIdMissing(user)
    THEN /\ resp' = Db("upsertUser", user, "throws",
                       "User openId is required for upsert", {})
         /\ UNCHANGED <<tables, nextId, now, inFlight, connection>>
  ELSE IF getDb = NULL
    THEN /\ resp' = Db("upsertUser", user, "returned", NULL, {})
         /\ _db' = getDb
         /\ UNCHANGED <<tables, nextId, now, inFlight, DATABASE_URL>>
  ELSE /\ IF userByOpenId(user.openId) = {}
            THEN /\ users' = users \cup {userValues(user)}
                 /\ nextId' = [nextId EXCEPT !.users = @ + 1]
            ELSE /\ users' = {IF u.openId = user.openId THEN userUpdated(u, user)
                               ELSE u : u \in users}
                 /\ UNCHANGED nextId
       /\ resp' = Db("upsertUser", user, "returned", NULL, {})
       /\ _db' = getDb
       /\ UNCHANGED <<adminUsers, projects, apiKeys, dynamicData, now, inFlight, DATABASE_URL>>

\* getUserByOpenId: without a handle it returns undefined, the value it also
\* returns for "no such user"
getUserByOpenId(openId) ==
  /\ resp' = Db("getUserByOpenId", [openId |-> openId], "returned", NULL,
                IF getDb = NULL THEN {} ELSE userByOpenId(openId))
  /\ _db' = getDb
  /\ UNCHANGED <<tables, nextId, now, inFlight, DATABASE_URL>>

---------------------------------------------------------------------------
(* The helpers of db.ts called directly: each asks getDb for the handle and *)
(* throws when there is none.                                              *)

\* a helper that returned
Returned(op, input, result) ==
  /\ resp' = Db(op, input, "returned", NULL, result)
  /\ _db' = getDb
  /\ UNCHANGED <<now, inFlight, DATABASE_URL>>

\* getDb called directly: what it returned, whether it called drizzle(), and
\* the warning it logged when drizzle() threw
db_getDb ==
  /\ resp' = Reply("db", "getDb", [drizzleCalled |-> drizzleCalled], NULL, "returned",
                   IF drizzleCalled /\ drizzle(DATABASE_URL) = NULL
                     THEN "[Database] Failed to connect:" ELSE NULL,
                   {getDb})
  /\ _db' = getDb
  /\ UNCHANGED <<tables, nextId, now, inFlight, DATABASE_URL>>

\* process.env.DATABASE_URL is given a value while the server runs
setDatabaseUrl(url) ==
  /\ DATABASE_URL' = url
  /\ UNCHANGED <<tables, nextId, now, inFlight, resp, _db>>

\* a helper that only reads
Selected(op, input, result) ==
  IF getDb = NULL THEN DatabaseNotAvailable(op, input)
  ELSE Returned(op, input, result) /\ UNCHANGED <<tables, nextId>>

db_createProject(adminUserId, name) ==
  LET input == [adminUserId |-> adminUserId, name |-> name] IN
  IF getDb = NULL THEN DatabaseNotAvailable("createProject", input)
  ELSE /\ createProject(adminUserId, name, NULL, NULL)
       /\ Returned("createProject", input, {})
       /\ UNCHANGED <<users, adminUsers, apiKeys, dynamicData>>

db_getProjectsByAdminId(adminUserId) ==
  Selected("getProjectsByAdminId", [adminUserId |-> adminUserId],
           getProjectsByAdminId(adminUserId))

db_getProjectById(projectId) ==
  Selected("getProjectById", [projectId |-> projectId], getProjectById(projectId))

db_updateProject(projectId, name) ==
  LET input == [projectId |-> projectId, name |-> name] IN
  IF getDb = NULL THEN DatabaseNotAvailable("updateProject", input)
  ELSE /\ updateProject(projectId, [name |-> name, description |-> NULL,
                                    schema |-> NULL])
       /\ Returned("updateProject", input, {})
       /\ UNCHANGED <<users, adminUsers, apiKeys, dynamicData, nextId>>

db_deleteProject(projectId) ==
  LET input == [projectId |-> projectId] IN
  IF getDb = NULL THEN DatabaseNotAvailable("deleteProject", input)
  ELSE /\ deleteProject(projectId)
       /\ Returned("deleteProject", input, {})
       /\ UNCHANGED <<users, adminUsers, apiKeys, dynamicData, nextId>>

\* createApiKey; key is the token the generator produced for this call, and
\* permissions the optional list
db_createApiKey(projectId, permissions, key) ==
  LET input == [projectId |-> projectId, name |-> "key", permissions |-> permissions] IN
  IF getDb = NULL THEN DatabaseNotAvailable("createApiKey", input)
  ELSE /\ createApiKey(projectId, "key", permissions, key)
       /\ resp' = IF createApiKeyThrows(key)
                    THEN Db("createApiKey", input, "throws", "Duplicate entry", {})
                    ELSE Db("createApiKey", input, "returned", NULL, {})
       /\ _db' = getDb
       /\ UNCHANGED <<users, adminUsers, projects, dynamicData, now, inFlight, DATABASE_URL>>

db_getApiKeysByProjectId(projectId) ==
  Selected("getApiKeysByProjectId", [projectId |-> projectId],
           getApiKeysByProjectId(projectId))

db_getApiKeyByKey(key) ==
  Selected("getApiKeyByKey", [key |-> key], getApiKeyByKey(key))

db_revokeApiKey(apiKeyId) ==
  LET input == [apiKeyId |-> apiKeyId] IN
  IF getDb = NULL THEN DatabaseNotAvailable("revokeApiKey", input)
  ELSE /\ revokeApiKey(apiKeyId)
       /\ Returned("revokeApiKey", input, {})
       /\ UNCHANGED <<users, adminUsers, projects, dynamicData, nextId>>

\* insertDynamicData; the value returned carries insertId, the new row's id
db_insertDynamicData(projectId, data, isPublic) ==
  LET input == [projectId |-> projectId, data |-> data, isPublic |-> isPublic] IN
  IF getDb = NULL THEN DatabaseNotAvailable("insertDynamicData", input)
  ELSE /\ insertDynamicData(projectId, data, NULL, NULL, isPublic)
       /\ Returned("insertDynamicData", input, {[insertId |-> nextId.dynamicData]})
       /\ UNCHANGED <<users, adminUsers, projects, apiKeys>>

db_getDynamicDataByProjectId(projectId, limit, offset) ==
  Selected("getDynamicDataByProjectId",
           [projectId |-> projectId, limit |-> limit, offset |-> offset],
           getDynamicDataByProjectId(projectId, limit, offset))

db_getDynamicDataById(dataId) ==
  Selected("getDynamicDataById", [dataId |-> dataId], getDynamicDataById(dataId))

db_updateDynamicData(dataId, data) ==
  LET input == [dataId |-> dataId, data |-> data] IN
  IF getDb = NULL THEN DatabaseNotAvailable("updateDynamicData", input)
  ELSE /\ updateDynamicData(dataId, data)
       /\ Returned("updateDynamicData", input, {})
       /\ UNCHANGED <<users, adminUsers, projects, apiKeys, nextId>>

db_deleteDynamicData(dataId) ==
  LET input == [dataId |-> dataId] IN
  IF getDb = NULL THEN DatabaseNotAvailable("deleteDynamicData", input)
  ELSE /\ deleteDynamicData(dataId)
       /\ Returned("deleteDynamicData", input, {})
       /\ UNCHANGED <<users, adminUsers, projects, apiKeys, nextId>>

db_searchDynamicData(projectId, userId, dataType) ==
  Selected("searchDynamicData",
           [projectId |-> projectId, userId |-> userId, dataType |-> dataType],
           searchDynamicData(projectId, userId, dataType))

---------------------------------------------------------------------------
(* Admin Identity Service (auth.ts) *)

\* e-mail addresses and names are character sequences, so that the default
\* name, email.split("@")[0], is computed and not assumed
EmailA == <<"a", "@", "x">>

\* an address with a second "@" (nothing in createAdminUser validates the address)
EmailB == <<"b", "@", "y", "@", "x">>

Emails == {EmailA, EmailB}

\* the name argument: <<>> is an omitted (or empty, equally falsy) name
NameInputs == {<<>>, <<"N">>}

Passwords == {"pw1", "pw2"}

Salts == {"s1", "s2"}

\* bcrypt.hash: a salted one-way hash; the model keeps the salt and the
\* plain text the digest was made from
hashPassword(password, salt) == [salt |-> salt, digest |-> password]

\* bcrypt.compare: true exactly when the hash was made from that plain text
comparePassword(plainPassword, hashedPassword) == hashedPassword.digest = plainPassword

\* email.split("@")[0]: the characters before the first "@" (all of them when
\* there is none)
RECURSIVE SplitAtFirst(_)
SplitAtFirst(s) ==
  IF s = <<>> \/ Head(s) = "@" THEN <<>> ELSE <<Head(s)>> \o SplitAtFirst(Tail(s))

\* variant: the whole address is the default name
NameOrPrefix_wholeEmail(name, email) == IF name = <<>> THEN email ELSE name

\* name || email.split("@")[0]
NameOrPrefix(name, email) == IF name = <<>> THEN SplitAtFirst(email) ELSE name

\* the row authenticateAdmin / the upsert finds by e-mail (email is UNIQUE)
adminByEmail(email) == {a \in adminUsers : a.email = email}

\* variant: a plain INSERT, a second row for an e-mail already stored
createAdminUserWrite_alwaysInserts(email, password, name, salt) ==
  /\ adminUsers' = adminUsers \cup
       {[id |-> nextId.adminUsers, email |-> email,
         passwordHash |-> hashPassword(password, salt),
         name |-> NameOrPrefix(name, email), isActive |-> TRUE, lastSignedIn |-> 0]}
  /\ nextId' = [nextId EXCEPT !.adminUsers = @ + 1]

\* variant: the update on conflict also writes isActive, as the insert does
createAdminUserWrite_reactivates(email, password, name, salt) ==
  IF adminByEmail(email) = {}
    THEN /\ adminUsers' = adminUsers \cup
              {[id |-> nextId.adminUsers, email |-> email,
                passwordHash |-> hashPassword(password, salt),
                name |-> NameOrPrefix(name, email), isActive |-> TRUE,
                lastSignedIn |-> 0]}
         /\ nextId' = [nextId EXCEPT !.adminUsers = @ + 1]
    ELSE /\ adminUsers' =
              {IF a.email = email
                 THEN [a EXCEPT !.passwordHash = hashPassword(password, salt),
                                !.name = NameOrPrefix(name, email),
                                !.isActive = TRUE]
                 ELSE a : a \in adminUsers}
         /\ UNCHANGED nextId

\* createAdminUser: INSERT ... ON DUPLICATE KEY UPDATE passwordHash, name
createAdminUserWrite(email, password, name, salt) ==
  IF adminByEmail(email) = {}
    THEN /\ adminUsers' = adminUsers \cup
              {[id |-> nextId.adminUsers, email |-> email,
                passwordHash |-> hashPassword(password, salt),
                name |-> NameOrPrefix(name, email), isActive |-> TRUE,
                lastSignedIn |-> 0]}
         /\ nextId' = [nextId EXCEPT !.adminUsers = @ + 1]
    ELSE /\ adminUsers' =
              {IF a.email = email
                 THEN [a EXCEPT !.passwordHash = hashPassword(password, salt),
                                !.name = NameOrPrefix(name, email)]
                 ELSE a : a \in adminUsers}
         /\ UNCHANGED nextId

\* variant: the active flag is not looked at
authenticated_ignoresActive(email, password) ==
  {a \in adminByEmail(email) : comparePassword(password, a.passwordHash)}

\* authenticateAdmin, the rows that pass: found by e-mail, active, password matches
authenticated(email, password) ==
  {a \in adminByEmail(email) : a.isActive /\ comparePassword(password, a.passwordHash)}

\* authenticateAdmin, the value returned: {} for null, else the reduced record
authenticateAdminResult(email, password) ==
  {[id |-> a.id, email |-> a.email, name |-> a.name] : a \in authenticated(email, password)}

\* authenticateAdmin, the write: lastSignedIn := new Date() on the row that passed
authenticateAdminWrite(email, password) ==
  adminUsers' = {IF a \in authenticated(email, password)
                   THEN [a EXCEPT !.lastSignedIn = now] ELSE a : a \in adminUsers}

\* getAdminById: the whole row (hash included), {} for null
getAdminById(id) == {a \in adminUsers : a.id = id}

---------------------------------------------------------------------------
(* Typed Procedure Router (routers.ts) *)

\* variant: the middleware rejects only when both identities are missing
adminProcedure_either(ctx) == ~(ctx.user = NULL /\ ctx.adminSession = NoSession)

\* adminProcedure: TRUE when the middleware lets the call through, FALSE when
\* it throws UNAUTHORIZED
adminProcedure(ctx) == ~(ctx.user = NULL \/ ctx.adminSession = NoSession)

\* variant: only the absence of the project is checked, not its owner
notOwned_absentOnly(project, ctx) == project = {}

\* !project || project.adminUserId !== ctx.adminSession?.id
notOwned(project, ctx) ==
  project = {} \/ \E p \in project : p.adminUserId # SessionId(ctx)

Unauthorized(op, ctx, input) ==
  /\ resp' = Trpc(op, ctx, input, "UNAUTHORIZED", {})
  /\ UNCHANGED <<tables, nextId, now, inFlight, connection>>

Forbidden(op, ctx, input) ==
  /\ resp' = Trpc(op, ctx, input, "FORBIDDEN", {})
  /\ UNCHANGED <<tables, nextId, now, inFlight, connection>>

\* admin.login
admin_login(ctx, input) ==
  LET admin == authenticateAdminResult(input.email, input.password) IN
  IF admin = {}
    THEN /\ resp' = Reply("trpc", "admin.login", ctx, input, "UNAUTHORIZED",
                          "Invalid credentials", {})
         /\ UNCHANGED <<tables, nextId, now, inFlight, connection>>
    ELSE /\ authenticateAdminWrite(input.email, input.password)
         /\ resp' = Trpc("admin.login", ctx, input, "OK", admin)
         /\ UNCHANGED <<users, projects, apiKeys, dynamicData, nextId, now, inFlight, connection>>

\* admin.getAdminInfo
admin_getAdminInfo(ctx) ==
  IF ~adminProcedure(ctx) \/ SessionId(ctx) = 0
    THEN Unauthorized("admin.getAdminInfo", ctx, NULL)
    ELSE /\ resp' = Trpc("admin.getAdminInfo", ctx, NULL, "OK",
                         getAdminById(SessionId(ctx)))
         /\ UNCHANGED <<tables, nextId, now, inFlight, connection>>

\* projects.list
projects_list(ctx) ==
  IF ~adminProcedure(ctx) \/ SessionId(ctx) = 0
    THEN Unauthorized("projects.list", ctx, NULL)
    ELSE /\ resp' = Trpc("projects.list", ctx, NULL, "OK",
                         getProjectsByAdminId(SessionId(ctx)))
         /\ UNCHANGED <<tables, nextId, now, inFlight, connection>>

\* projects.get
projects_get(ctx, input) ==
  LET project == getProjectById(input.projectId) IN
  IF ~adminProcedure(ctx) THEN Unauthorized("projects.get", ctx, input)
  ELSE IF notOwned(project, ctx) THEN Forbidden("projects.get", ctx, input)
  ELSE /\ resp' = Trpc("projects.get", ctx, input, "OK", project)
       /\ UNCHANGED <<tables, nextId, now, inFlight, connection>>

\* projects.create
projects_create(ctx, input) ==
  IF ~adminProcedure(ctx) \/ SessionId(ctx) = 0
    THEN Unauthorized("projects.create", ctx, input)
    ELSE /\ createProject(SessionId(ctx), input.name, input.description, input.schema)
         /\ resp' = Trpc("projects.create", ctx, input, "OK", {})
         /\ UNCHANGED <<users, adminUsers, apiKeys, dynamicData, now, inFlight, connection>>

\* projects.update
projects_update(ctx, input) ==
  LET project == getProjectById(input.projectId) IN
  IF ~adminProcedure(ctx) THEN Unauthorized("projects.update", ctx, input)
  ELSE IF notOwned(project, ctx) THEN Forbidden("projects.update", ctx, input)
  ELSE IF noValuesToSet(input)
    THEN /\ resp' = Trpc("projects.update", ctx, input, "INTERNAL_SERVER_ERROR", {})
         /\ UNCHANGED <<tables, nextId, now, inFlight, connection>>
  ELSE /\ updateProject(input.projectId,
                        [name |-> input.name, description |-> input.description,
                         schema |-> input.schema])
       /\ resp' = Trpc("projects.update", ctx, input, "OK", {})
       /\ UNCHANGED <<users, adminUsers, apiKeys, dynamicData, nextId, now, inFlight, connection>>

\* variant of projects.delete: the row is soft-deleted before the ownership check
projects_delete_checkAfter(ctx, input) ==
  LET project == getProjectById(input.projectId) IN
  IF ~adminProcedure(ctx) THEN Unauthorized("projects.delete", ctx, input)
  ELSE /\ deleteProject(input.projectId)
       /\ resp' = Trpc("projects.delete", ctx, input,
                       IF notOwned(project, ctx) THEN "FORBIDDEN" ELSE "OK", {})
       /\ UNCHANGED <<users, adminUsers, apiKeys, dynamicData, nextId, now, inFlight, connection>>

\* projects.delete
projects_delete(ctx, input) ==
  LET project == getProjectById(input.projectId) IN
  IF ~adminProcedure(ctx) THEN Unauthorized("projects.delete", ctx, input)
  ELSE IF notOwned(project, ctx) THEN Forbidden("projects.delete", ctx, input)
  ELSE /\ deleteProject(input.projectId)
       /\ resp' = Trpc("projects.delete", ctx, input, "OK", {})
       /\ UNCHANGED <<users, adminUsers, apiKeys, dynamicData, nextId, now, inFlight, connection>>

\* apiKeys.list
apiKeys_list(ctx, input) ==
  LET project == getProjectById(input.projectId) IN
  IF ~adminProcedure(ctx) THEN Unauthorized("apiKeys.list", ctx, input)
  ELSE IF notOwned(project, ctx) THEN Forbidden("apiKeys.list", ctx, input)
  ELSE /\ resp' = Trpc("apiKeys.list", ctx, input, "OK",
                       getApiKeysByProjectId(input.projectId))
       /\ UNCHANGED <<tables, nextId, now, inFlight, connection>>

\* variant: like apiKeys.revoke, the procedure does not fetch the project
apiKeys_create_unchecked(ctx, input, key) ==
  IF ~adminProcedure(ctx) THEN Unauthorized("apiKeys.create", ctx, input)
  ELSE /\ createApiKey(input.projectId, input.name, input.permissions, key)
       /\ resp' = Trpc("apiKeys.create", ctx, input,
                       IF createApiKeyThrows(key) THEN "INTERNAL_SERVER_ERROR"
                       ELSE "OK", {})
       /\ UNCHANGED <<users, adminUsers, projects, dynamicData, now, inFlight, connection>>

\* apiKeys.create; key is the token the generator produced for this call
apiKeys_create(ctx, input, key) ==
  LET project == getProjectById(input.projectId) IN
  IF ~adminProcedure(ctx) THEN Unauthorized("apiKeys.create", ctx, input)
  ELSE IF notOwned(project, ctx) THEN Forbidden("apiKeys.create", ctx, input)
  ELSE /\ createApiKey(input.projectId, input.name, input.permissions, key)
       /\ resp' = Trpc("apiKeys.create", ctx, input,
                       IF createApiKeyThrows(key) THEN "INTERNAL_SERVER_ERROR"
                       ELSE "OK", {})
       /\ UNCHANGED <<users, adminUsers, projects, dynamicData, now, inFlight, connection>>

\* apiKeys.revoke: no project is fetched, the row is updated by its id
apiKeys_revoke(ctx, input) ==
  IF ~adminProcedure(ctx) THEN Unauthorized("apiKeys.revoke", ctx, input)
  ELSE /\ revokeApiKey(input.apiKeyId)
       /\ resp' = Trpc("apiKeys.revoke", ctx, input, "OK", {})
       /\ UNCHANGED <<users, adminUsers, projects, dynamicData, nextId, now, inFlight, connection>>

\* data.list
data_list(ctx, input) ==
  LET project == getProjectById(input.projectId) IN
  IF ~adminProcedure(ctx) THEN Unauthorized("data.list", ctx, input)
  ELSE IF notOwned(project, ctx) THEN Forbidden("data.list", ctx, input)
  ELSE /\ resp' = Trpc("data.list", ctx, input, "OK",
                       getDynamicDataByProjectId(input.projectId, input.limit,
                                                 input.offset))
       /\ UNCHANGED <<tables, nextId, now, inFlight, connection>>

\* data.create
data_create(ctx, input) ==
  LET project == getProjectById(input.projectId) IN
  IF ~adminProcedure(ctx) THEN Unauthorized("data.create", ctx, input)
  ELSE IF notOwned(project, ctx) THEN Forbidden("data.create", ctx, input)
  ELSE /\ insertDynamicData(input.projectId, input.data, input.userId,
                            input.dataType, input.isPublic)
       /\ resp' = Trpc("data.create", ctx, input, "OK", {})
       /\ UNCHANGED <<users, adminUsers, projects, apiKeys, now, inFlight, connection>>

\* data.update: no project is fetched, the row is updated by its id
data_update(ctx, input) ==
  IF ~adminProcedure(ctx) THEN Unauthorized("data.update", ctx, input)
  ELSE /\ updateDynamicData(input.dataId, input.data)
       /\ resp' = Trpc("data.update", ctx, input, "OK", {})
       /\ UNCHANGED <<users, adminUsers, projects, apiKeys, nextId, now, inFlight, connection>>

\* data.delete: no project is fetched, the row is deleted by its id
data_delete(ctx, input) ==
  IF ~adminProcedure(ctx) THEN Unauthorized("data.delete", ctx, input)
  ELSE /\ deleteDynamicData(input.dataId)
       /\ resp' = Trpc("data.delete", ctx, input, "OK", {})
       /\ UNCHANGED <<users, adminUsers, projects, apiKeys, nextId, now, inFlight, connection>>

\* data.search
data_search(ctx, input) ==
  LET project == getProjectById(input.projectId) IN
  IF ~adminProcedure(ctx) THEN Unauthorized("data.search", ctx, input)
  ELSE IF notOwned(project, ctx) THEN Forbidden("data.search", ctx, input)
  ELSE /\ resp' = Trpc("data.search", ctx, input, "OK",
                       searchDynamicData(input.projectId, input.userId,
                                         input.dataType))
       /\ UNCHANGED <<tables, nextId, now, inFlight, connection>>

---------------------------------------------------------------------------
(* External REST Facade (api.ts) *)

\* !apiKey
apiKeyMissing(header) == header = NULL \/ header = ""

\* variant: an inactive key row is accepted
apiKeyRejected_unknownOnly(keyData) == keyData = {}

\* variant: a key whose permission list lacks "write" is turned away as well
apiKeyRejected_withoutWrite(keyData) ==
  keyData = {} \/ \E k \in keyData : ~k.isActive \/ "write" \notin k.permissions

\* !keyData || !keyData.isActive
apiKeyRejected(keyData) == keyData = {} \/ \E k \in keyData : ~k.isActive

\* req.projectId = keyData.projectId
boundProjectId(header) == (CHOOSE k \in getApiKeyByKey(header) : TRUE).projectId

\* no request is between the middleware and its handler
NoRequest == [op |-> "none"]

\* variant: the key of a soft-deleted project is turned away as well
authDenied_inactiveProject(header) ==
  \/ apiKeyMissing(header)
  \/ apiKeyRejected(getApiKeyByKey(header))
  \/ \E k \in getApiKeyByKey(header), p \in projects : p.id = k.projectId /\ ~p.isActive

\* authenticateApiKey answering 401 itself; next() is not called
authDenied(header) == apiKeyMissing(header) \/ apiKeyRejected(getApiKeyByKey(header))

authenticateApiKey401(op, header, input) ==
  /\ resp' = Rest(op, [header |-> header, projectId |-> 0, ran |-> FALSE], input, "401",
                  IF apiKeyMissing(header) THEN "Missing API key"
                  ELSE "Invalid or revoked API key", {})
  /\ _db' = IF apiKeyMissing(header) THEN _db ELSE getDb
  /\ UNCHANGED <<tables, nextId, now, DATABASE_URL>>

\* await getApiKeyByKey(apiKey) throwing "Database not available": the
\* middleware has no try/catch
authThrows(header) == ~apiKeyMissing(header) /\ getDb = NULL

\* what the client then gets depends on the Express version the server is
\* built with: the rejected promise is dropped and no response is ever sent
\* ("none"), or it is handed to the default error handler, which answers 500
\* with an HTML page, not the JSON body {error: message} (msg NULL)
authenticateApiKeyThrows(op, header, input) ==
  /\ \E outcome \in {"none", "500"} :
       resp' = Rest(op, [header |-> header, projectId |-> 0, ran |-> FALSE], input,
                    outcome, NULL, {})
  /\ _db' = getDb
  /\ UNCHANGED <<tables, nextId, now, DATABASE_URL>>

\* authenticateApiKey as a step of its own: it answers (or fails) itself, or
\* attaches the key's project to the request and calls next(); the handler
\* runs in a later step
authenticateApiKey(op, header, input) ==
  /\ inFlight = NoRequest
  /\ IF authThrows(header)
       THEN authenticateApiKeyThrows(op, header, input) /\ UNCHANGED inFlight
     ELSE IF authDenied(header)
       THEN authenticateApiKey401(op, header, input) /\ UNCHANGED inFlight
     ELSE /\ inFlight' = [op |-> op, header |-> header, input |-> input]
          /\ _db' = getDb
          /\ UNCHANGED <<tables, nextId, now, resp, DATABASE_URL>>

\* what the handler, once run, records about the request
Bound(header) == [header |-> header, projectId |-> boundProjectId(header), ran |-> TRUE]

DefaultLimit == 100

MaxLimit == 1000

\* a query parameter: absent, not a number, or a decimal integer
NoParam == [tag |-> "absent", v |-> 0]

NaNParam == [tag |-> "nan", v |-> 0]

IntParam(n) == [tag |-> "int", v |-> n]

\* parseInt(q) || dflt: NaN (absent or non-numeric) and 0 fall back to dflt
parseIntOr(q, dflt) == IF q.tag = "int" /\ q.v # 0 THEN q.v ELSE dflt

\* variant: the limit is not clamped
Min_first(a, b) == a

Min(a, b) == IF a < b THEN a ELSE b

\* what the list handler records: the request, and the limit and offset it
\* hands to getDynamicDataByProjectId
ListBound(header, limit, offset) ==
  [header |-> header, projectId |-> boundProjectId(header), ran |-> TRUE,
   limit |-> limit, offset |-> offset]

\* GET /v1/data ; a negative LIMIT or OFFSET is an SQL error, answered 500
get_data(header, query) ==
       LET projectId == boundProjectId(header)
           limit == Min(parseIntOr(query.limit, DefaultLimit), MaxLimit)
           offset == parseIntOr(query.offset, 0)
           ctx == ListBound(header, limit, offset)
       IN  /\ resp' = IF limit < 0 \/ offset < 0
                        THEN Rest("GET /v1/data", ctx, query, "500", "sql error", {})
                        ELSE Rest("GET /v1/data", ctx, query, "200", NULL,
                                  getDynamicDataByProjectId(projectId, limit, offset))
           /\ _db' = getDb
           /\ UNCHANGED <<tables, nextId, now, DATABASE_URL>>

\* the route "GET /v1/data": the middleware, then (without another
\* request in between) the handler
rest_list(header, query) ==
  /\ IF authThrows(header) THEN authenticateApiKeyThrows("GET /v1/data", header, query)
     ELSE IF authDenied(header) THEN authenticateApiKey401("GET /v1/data", header, query)
     ELSE get_data(header, query)
  /\ UNCHANGED inFlight

\* POST /api/v1/data
post_data(header, body) ==
  IF falsy(body.data)
    THEN /\ resp' = Rest("POST /api/v1/data", Bound(header), body, "400",
                         "Data field is required", {})
         /\ _db' = getDb
         /\ UNCHANGED <<tables, nextId, now, DATABASE_URL>>
    ELSE /\ insertDynamicData(boundProjectId(header), body.data, body.userId,
                              body.dataType, body.isPublic)
         /\ resp' = Rest("POST /api/v1/data", Bound(header), body, "201",
                         "Data inserted successfully", {})
         /\ _db' = getDb
         /\ UNCHANGED <<users, adminUsers, projects, apiKeys, now, DATABASE_URL>>

\* the route "POST /api/v1/data": the middleware, then (without another
\* request in between) the handler
rest_create(header, body) ==
  /\ IF authThrows(header) THEN authenticateApiKeyThrows("POST /api/v1/data", header, body)
     ELSE IF authDenied(header) THEN authenticateApiKey401("POST /api/v1/data", header, body)
     ELSE post_data(header, body)
  /\ UNCHANGED inFlight

\* PUT /api/v1/data/:id ; input.id.ok is whether BigInt(req.params.id) succeeds
put_data(header, input) ==
  IF ~input.id.ok
    THEN /\ resp' = Rest("PUT /api/v1/data/:id", Bound(header), input, "500",
                         "Cannot convert to a BigInt", {})
         /\ _db' = getDb
         /\ UNCHANGED <<tables, nextId, now, DATABASE_URL>>
  ELSE IF falsy(input.data)
    THEN /\ resp' = Rest("PUT /api/v1/data/:id", Bound(header), input, "400",
                         "Data field is required", {})
         /\ _db' = getDb
         /\ UNCHANGED <<tables, nextId, now, DATABASE_URL>>
    ELSE /\ updateDynamicData(input.id.v, input.data)
         /\ resp' = Rest("PUT /api/v1/data/:id", Bound(header), input, "200",
                         "Data updated successfully", {})
         /\ _db' = getDb
         /\ UNCHANGED <<users, adminUsers, projects, apiKeys, nextId, now, DATABASE_URL>>

\* the route "PUT /api/v1/data/:id": the middleware, then (without another
\* request in between) the handler
rest_update(header, input) ==
  /\ IF authThrows(header) THEN authenticateApiKeyThrows("PUT /api/v1/data/:id", header, input)
     ELSE IF authDenied(header) THEN authenticateApiKey401("PUT /api/v1/data/:id", header, input)
     ELSE put_data(header, input)
  /\ UNCHANGED inFlight

\* DELETE /api/v1/data/:id
delete_data(header, input) ==
  IF ~input.id.ok
    THEN /\ resp' = Rest("DELETE /api/v1/data/:id", Bound(header), input, "500",
                         "Cannot convert to a BigInt", {})
         /\ _db' = getDb
         /\ UNCHANGED <<tables, nextId, now, DATABASE_URL>>
    ELSE /\ deleteDynamicData(input.id.v)
         /\ resp' = Rest("DELETE /api/v1/data/:id", Bound(header), input, "200",
                         "Data deleted successfully", {})
         /\ _db' = getDb
         /\ UNCHANGED <<users, adminUsers, projects, apiKeys, nextId, now, DATABASE_URL>>

\* the route "DELETE /api/v1/data/:id": the middleware, then (without another
\* request in between) the handler
rest_delete(header, input) ==
  /\ IF authThrows(header) THEN authenticateApiKeyThrows("DELETE /api/v1/data/:id", header, input)
     ELSE IF authDenied(header) THEN authenticateApiKey401("DELETE /api/v1/data/:id", header, input)
     ELSE delete_data(header, input)
  /\ UNCHANGED inFlight

\* GET /api/v1/data/search
get_search(header, query) ==
         /\ resp' = Rest("GET /api/v1/data/search", Bound(header), query, "200", NULL,
                         searchDynamicData(boundProjectId(header), query.userId,
                                           query.dataType))
         /\ _db' = getDb
         /\ UNCHANGED <<tables, nextId, now, DATABASE_URL>>

\* the route "GET /api/v1/data/search": the middleware, then (without another
\* request in between) the handler
rest_search(header, query) ==
  /\ IF authThrows(header) THEN authenticateApiKeyThrows("GET /api/v1/data/search", header, query)
     ELSE IF authDenied(header) THEN authenticateApiKey401("GET /api/v1/data/search", header, query)
     ELSE get_search(header, query)
  /\ UNCHANGED inFlight

\* GET /api/v1/project: id, name, description, isActive (createdAt is not modelled)
get_project(header) ==
       LET project == getProjectById(boundProjectId(header)) IN
       /\ resp' = IF project = {}
                    THEN Rest("GET /api/v1/project", Bound(header), NULL, "404",
                              "Project not found", {})
                    ELSE Rest("GET /api/v1/project", Bound(header), NULL, "200", NULL,
                              {[id |-> p.id, name |-> p.name,
                                description |-> p.description,
                                isActive |-> p.isActive] : p \in project})
       /\ _db' = getDb
       /\ UNCHANGED <<tables, nextId, now, DATABASE_URL>>

\* the route "GET /api/v1/project": the middleware, then (without another
\* request in between) the handler
rest_project(header) ==
  /\ IF authThrows(header) THEN authenticateApiKeyThrows("GET /api/v1/project", header, NULL)
     ELSE IF authDenied(header) THEN authenticateApiKey401("GET /api/v1/project", header, NULL)
     ELSE get_project(header)
  /\ UNCHANGED inFlight

---------------------------------------------------------------------------
(* Inputs *)

ProjectIdInputs == [projectId : ProjectIds]

ProjectCreateInputs == [name : ProjectNames, description : {NULL}, schema : {NULL}]

ProjectUpdateInputs ==
  [projectId : ProjectIds, name : {NULL, "P2"}, description : {NULL}, schema : {NULL}]

KeyCreateInputs == [projectId : ProjectIds, name : {"key"}, permissions : {NoPermissions}]

\* the tokens the generator produces in the router specification
RouterKeyTokens == {"sk_1"}

KeyRevokeInputs == [apiKeyId : KeyIds]

DataListInputs == [projectId : ProjectIds, limit : {DefaultLimit}, offset : {0}]

DataTags == {[userId |-> NULL, dataType |-> NULL], [userId |-> "x", dataType |-> "t"]}

DataCreateInputs ==
  [projectId : ProjectIds, data : Payloads, userId : {"x"}, dataType : {"t"},
   isPublic : {{}}]

DataUpdateInputs == [dataId : DataIds, data : Payloads]

DataDeleteInputs == [dataId : DataIds]

DataSearchInputs ==
  {[projectId |-> p, userId |-> t.userId, dataType |-> t.dataType]
     : p \in ProjectIds, t \in DataTags}

LoginInputs == [email : {EmailA}, password : Passwords]

\* limit: absent, not a number, zero, negative, small, above the maximum
\* with the offset absent, and a page of one record after the first
RestListQueries ==
  {[limit |-> l, offset |-> NoParam]
     : l \in {NoParam, NaNParam, IntParam(0), IntParam(-1), IntParam(1),
              IntParam(MaxLimit + 1)}}
  \cup {[limit |-> IntParam(1), offset |-> IntParam(1)]}

RestCreateBodies ==
  [data : Payloads \cup {NoData, FalseData}, userId : {"x"}, dataType : {"t"},
   isPublic : {{}}]

IdParams == {[ok |-> TRUE, v |-> i] : i \in RestDataIds} \cup {[ok |-> FALSE, v |-> 0]}

RestUpdateInputs == [id : IdParams, data : Payloads \cup {NoData, FalseData}]

RestDeleteInputs == [id : IdParams]

RestSearchQueries == DataTags

\* fewer request bodies, for the specifications that vary something else: a
\* payload and a missing data field
WriteBodies == [data : {Doc1, NoData}, userId : {"x"}, dataType : {"t"}, isPublic : {{}}]

WriteUpdateInputs == [id : IdParams, data : {Doc2, NoData}]

---------------------------------------------------------------------------
(* Spec: the typed procedure router over a datastore that already holds    *)
(* the admin accounts.                                                     *)

\* the admin accounts the server starts with: an active one and one that was
\* deactivated (no procedure of the server creates or deactivates accounts)
SeedAdminUsers ==
  {[id |-> 1, email |-> EmailA, passwordHash |-> hashPassword("pw1", "s1"),
    name |-> <<"a">>, isActive |-> TRUE, lastSignedIn |-> 0],
   [id |-> 2, email |-> EmailB, passwordHash |-> hashPassword("pw1", "s1"),
    name |-> <<"b">>, isActive |-> FALSE, lastSignedIn |-> 0]}

Init ==
  /\ adminUsers = SeedAdminUsers
  /\ projects = {}
  /\ apiKeys = {}
  /\ dynamicData = {}
  /\ nextId = [adminUsers |-> 3, projects |-> 1, apiKeys |-> 1, dynamicData |-> 1, users |-> 1]
  /\ now = 1
  /\ resp = NoReply
  /\ inFlight = NoRequest
  /\ users = {}
  /\ _db = "drizzle"
  /\ DATABASE_URL = "mysql://db"

Next ==
  \/ \E ctx \in Contexts, input \in LoginInputs : admin_login(ctx, input)
  \/ \E ctx \in Contexts : admin_getAdminInfo(ctx)
  \/ \E ctx \in Contexts : projects_list(ctx)
  \/ \E ctx \in Contexts, input \in ProjectIdInputs : projects_get(ctx, input)
  \/ \E ctx \in Contexts, input \in ProjectCreateInputs :
        nextId.projects <= MaxProjects /\ projects_create(ctx, input)
  \/ \E ctx \in Contexts, input \in ProjectUpdateInputs : projects_update(ctx, input)
  \/ \E ctx \in Contexts, input \in ProjectIdInputs : projects_delete(ctx, input)
  \/ \E ctx \in Contexts, input \in ProjectIdInputs : apiKeys_list(ctx, input)
  \/ \E ctx \in Contexts, input \in KeyCreateInputs, key \in RouterKeyTokens :
        nextId.apiKeys <= MaxKeys /\ apiKeys_create(ctx, input, key)
  \/ \E ctx \in Contexts, input \in KeyRevokeInputs : apiKeys_revoke(ctx, input)
  \/ \E ctx \in Contexts, input \in DataListInputs : data_list(ctx, input)
  \/ \E ctx \in Contexts, input \in DataCreateInputs :
        nextId.dynamicData <= MaxData /\ data_create(ctx, input)
  \/ \E ctx \in Contexts, input \in DataUpdateInputs : data_update(ctx, input)
  \/ \E ctx \in Contexts, input \in DataDeleteInputs : data_delete(ctx, input)
  \/ \E ctx \in Contexts, input \in DataSearchInputs : data_search(ctx, input)

Spec == Init /\ [][Next]_vars

---------------------------------------------------------------------------
(* SpecProjects: the project procedures of the router alone, with several   *)
(* projects created by either admin.                                        *)

\* project rows created
MaxListedProjects == 3

NextProjects ==
  \/ \E ctx \in Contexts, input \in ProjectCreateInputs :
        nextId.projects <= MaxListedProjects /\ projects_create(ctx, input)
  \/ \E ctx \in Contexts : projects_list(ctx)
  \/ \E ctx \in Contexts, input \in [projectId : 1..MaxListedProjects] :
        projects_delete(ctx, input)

SpecProjects == Init /\ [][NextProjects]_vars

---------------------------------------------------------------------------
(* SpecRest: the REST facade, and key revocation, over a datastore in      *)
(* which two admins each own a project with one API key.                   *)

SeedProjects ==
  {[id |-> i, adminUserId |-> i, name |-> "P1", description |-> NULL,
    schema |-> NULL, isActive |-> TRUE] : i \in {1, 2}}

SeedApiKeys ==
  {[id |-> 1, projectId |-> 1, key |-> "sk_1", name |-> "key",
    permissions |-> DefaultPermissions, isActive |-> TRUE],
   [id |-> 2, projectId |-> 2, key |-> "sk_2", name |-> "key",
    permissions |-> DefaultPermissions, isActive |-> TRUE]}

\* a key header that matches no row, besides the absent, empty and stored ones
KeyHeaders == {NULL, "", "sk_0"} \cup KeyTokens

InitRest ==
  /\ adminUsers = SeedAdminUsers
  /\ projects = SeedProjects
  /\ apiKeys = SeedApiKeys
  /\ dynamicData = {}
  /\ nextId = [adminUsers |-> 3, projects |-> 3, apiKeys |-> 3, dynamicData |-> 1, users |-> 1]
  /\ now = 1
  /\ resp = NoReply
  /\ inFlight = NoRequest
  /\ users = {}
  /\ _db = "drizzle"
  /\ DATABASE_URL = "mysql://db"

NextRest ==
  \/ \E header \in KeyHeaders, query \in RestListQueries : rest_list(header, query)
  \/ \E header \in KeyHeaders, body \in RestCreateBodies :
        nextId.dynamicData <= MaxRestData /\ rest_create(header, body)
  \/ \E header \in KeyHeaders, input \in RestUpdateInputs : rest_update(header, input)
  \/ \E header \in KeyHeaders, input \in RestDeleteInputs : rest_delete(header, input)
  \/ \E header \in KeyHeaders, query \in RestSearchQueries : rest_search(header, query)
  \/ \E header \in KeyHeaders : rest_project(header)
  \/ \E input \in [apiKeyId : {1, 2}] :
        apiKeys_revoke([user |-> "u1", adminSession |-> AdminSession(1)], input)

SpecRest == InitRest /\ [][NextRest]_vars

---------------------------------------------------------------------------
(* SpecAdmin: the admin identity service called directly, over an account  *)
(* table that is empty or holds one deactivated account.                   *)

\* auth.ts: if (!db) throw new Error("Database not available")
AuthNotAvailable(op, input) ==
  /\ resp' = Reply("auth", op, NoContext, input, "throws", "Database not available", {})
  /\ _db' = getDb
  /\ UNCHANGED <<tables, nextId, now, inFlight, DATABASE_URL>>

createAdminUser(email, password, name, salt) ==
  LET input == [email |-> email, password |-> password, name |-> name] IN
  IF getDb = NULL THEN AuthNotAvailable("createAdminUser", input)
  ELSE /\ createAdminUserWrite(email, password, name, salt)
       /\ resp' = Reply("auth", "createAdminUser", NoContext, input, "returned", NULL, {})
       /\ _db' = getDb
       /\ UNCHANGED <<users, projects, apiKeys, dynamicData, now, inFlight, DATABASE_URL>>

authenticateAdmin(email, password) ==
  LET input == [email |-> email, password |-> password] IN
  IF getDb = NULL THEN AuthNotAvailable("authenticateAdmin", input)
  ELSE /\ authenticateAdminWrite(email, password)
       /\ resp' = Reply("auth", "authenticateAdmin", NoContext, input, "returned", NULL,
                        authenticateAdminResult(email, password))
       /\ _db' = getDb
       /\ UNCHANGED <<users, projects, apiKeys, dynamicData, nextId, now, inFlight,
                      DATABASE_URL>>

\* getAdminById called directly
auth_getAdminById(id) ==
  LET input == [id |-> id] IN
  IF getDb = NULL THEN AuthNotAvailable("getAdminById", input)
  ELSE /\ resp' = Reply("auth", "getAdminById", NoContext, input, "returned", NULL,
                        getAdminById(id))
       /\ _db' = getDb
       /\ UNCHANGED <<tables, nextId, now, inFlight, DATABASE_URL>>

\* time passes between calls
Tick ==
  /\ now < MaxTime
  /\ now' = now + 1
  /\ UNCHANGED <<tables, nextId, resp, connection, inFlight>>

\* an account deactivated in the datastore (nothing in the service does it)
SeedInactiveAdmin ==
  {[id |-> 1, email |-> EmailB, passwordHash |-> hashPassword("pw1", "s1"),
    name |-> <<"b">>, isActive |-> FALSE, lastSignedIn |-> 0]}

InitCreate ==
  /\ adminUsers = {}
  /\ projects = {}
  /\ apiKeys = {}
  /\ dynamicData = {}
  /\ nextId = [adminUsers |-> 1, projects |-> 1, apiKeys |-> 1, dynamicData |-> 1, users |-> 1]
  /\ now = 1
  /\ resp = NoReply
  /\ inFlight = NoRequest
  /\ users = {}
  /\ _db = "drizzle"
  /\ DATABASE_URL = "mysql://db"

InitAdmin ==
  /\ adminUsers \in {{}, SeedInactiveAdmin}
  /\ projects = {}
  /\ apiKeys = {}
  /\ dynamicData = {}
  /\ nextId = [adminUsers |-> Cardinality(adminUsers) + 1, projects |-> 1,
               apiKeys |-> 1, dynamicData |-> 1, users |-> 1]
  /\ now = 1
  /\ resp = NoReply
  /\ inFlight = NoRequest
  /\ users = {}
  /\ _db = "drizzle"
  /\ DATABASE_URL = "mysql://db"

NextAdmin ==
  \/ \E email \in Emails, password \in Passwords, name \in NameInputs, salt \in Salts :
        createAdminUser(email, password, name, salt)
  \/ \E email \in Emails, password \in Passwords : authenticateAdmin(email, password)
  \/ Tick

SpecAdmin == InitAdmin /\ [][NextAdmin]_vars

\* the service started on an empty account table: every account there is was
\* made by createAdminUser
SpecCreate == InitCreate /\ [][NextAdmin]_vars

---------------------------------------------------------------------------
(* SpecUsers: the end-user helpers called directly, on a server that has no  *)
(* DATABASE_URL (no handle is ever made) or a good one (the first call makes *)
(* the handle).                                                             *)

\* the identifier of the argument: missing, empty, the owner's, another one
OpenIdInputs == {UNDEFINED, "", ownerOpenId, "o2"}

\* the optional fields of the argument, as callers supply them: none, one of
\* them (an explicit null name included), or name and role together
UserFields ==
  LET none == [name |-> UNDEFINED, email |-> UNDEFINED, loginMethod |-> UNDEFINED,
               role |-> UNDEFINED, lastSignedIn |-> 0]
  IN  {none,
       [none EXCEPT !.name = "n"],
       [none EXCEPT !.name = NULL],
       [none EXCEPT !.email = "e"],
       [none EXCEPT !.loginMethod = "m"],
       [none EXCEPT !.role = "user"],
       [none EXCEPT !.role = "admin"],
       [none EXCEPT !.lastSignedIn = 1],
       [none EXCEPT !.name = "n", !.role = "user"]}

UserInputs ==
  {[openId |-> o, name |-> f.name, email |-> f.email, loginMethod |-> f.loginMethod,
    role |-> f.role, lastSignedIn |-> f.lastSignedIn]
     : o \in OpenIdInputs, f \in UserFields}

InitUsers ==
  /\ users = {}
  /\ adminUsers = {}
  /\ projects = {}
  /\ apiKeys = {}
  /\ dynamicData = {}
  /\ nextId = [adminUsers |-> 1, projects |-> 1, apiKeys |-> 1, dynamicData |-> 1,
               users |-> 1]
  /\ now = 1
  /\ resp = NoReply
  /\ inFlight = NoRequest
  /\ _db = NULL
  /\ DATABASE_URL \in {NULL, "mysql://db"}

NextUsers ==
  \/ \E user \in UserInputs : upsertUser(user)
  \/ \E openId \in OpenIdInputs \ {UNDEFINED} : getUserByOpenId(openId)
  \/ Tick

SpecUsers == InitUsers /\ [][NextUsers]_vars

---------------------------------------------------------------------------
(* SpecDown: every helper of db.ts and auth.ts called directly on a server  *)
(* that cannot make a handle: DATABASE_URL is not set, or drizzle() throws  *)
(* on it.  The tables hold rows, so that a lookup that ran would find them. *)

SeedData ==
  {[id |-> 1, projectId |-> 1, userId |-> "x", dataType |-> "t",
    data |-> jsonColumn(Doc1), isPublic |-> FALSE, updatedAt |-> 1]}

SeedUsers ==
  {[id |-> 1, openId |-> "o2", name |-> "n", email |-> NULL, loginMethod |-> NULL,
    role |-> "user", lastSignedIn |-> 1]}

InitDown ==
  /\ users = SeedUsers
  /\ adminUsers = SeedAdminUsers
  /\ projects = SeedProjects
  /\ apiKeys = SeedApiKeys
  /\ dynamicData = SeedData
  /\ nextId = [adminUsers |-> 3, projects |-> 3, apiKeys |-> 3, dynamicData |-> 2,
               users |-> 2]
  /\ now = 1
  /\ resp = NoReply
  /\ inFlight = NoRequest
  /\ _db = NULL
  /\ DATABASE_URL \in {NULL, "malformed"}

NextDown ==
  \/ \E user \in UserInputs : upsertUser(user)
  \/ \E openId \in {"o2", ownerOpenId} : getUserByOpenId(openId)
  \/ \E a \in {1, 2}, name \in ProjectNames : db_createProject(a, name)
  \/ \E a \in {1, 2} : db_getProjectsByAdminId(a)
  \/ \E p \in {1, 2} : db_getProjectById(p)
  \/ \E p \in {1, 2}, name \in ProjectNames : db_updateProject(p, name)
  \/ \E p \in {1, 2} : db_deleteProject(p)
  \/ \E p \in {1, 2}, key \in KeyTokens : db_createApiKey(p, NoPermissions, key)
  \/ \E p \in {1, 2} : db_getApiKeysByProjectId(p)
  \/ \E key \in KeyTokens : db_getApiKeyByKey(key)
  \/ \E k \in {1, 2} : db_revokeApiKey(k)
  \/ \E p \in {1, 2}, data \in Payloads : db_insertDynamicData(p, data, {})
  \/ \E p \in {1, 2} : db_getDynamicDataByProjectId(p, DefaultLimit, 0)
  \/ \E d \in {1, 2} : db_getDynamicDataById(d)
  \/ \E d \in {1, 2}, data \in Payloads : db_updateDynamicData(d, data)
  \/ \E d \in {1, 2} : db_deleteDynamicData(d)
  \/ \E p \in {1, 2}, t \in DataTags : db_searchDynamicData(p, t.userId, t.dataType)
  \/ \E email \in Emails, password \in Passwords, name \in NameInputs, salt \in Salts :
        createAdminUser(email, password, name, salt)
  \/ \E email \in Emails, password \in Passwords : authenticateAdmin(email, password)
  \/ \E id \in {1, 2} : auth_getAdminById(id)

SpecDown == InitDown /\ [][NextDown]_vars

---------------------------------------------------------------------------
(* SpecStore: the dynamic-data and API-key helpers called directly on a     *)
(* connected datastore that holds the two seeded projects.                  *)

\* dynamic-data rows inserted
MaxStoreData == 1

\* API-key rows inserted
MaxStoreKeys == 3

\* project ids given to insertDynamicData: a stored project, and an id no
\* project has (the projectId column has no foreign key)
StoreProjectIds == {1, 3}

InitStore ==
  /\ users = {}
  /\ adminUsers = SeedAdminUsers
  /\ projects = SeedProjects
  /\ apiKeys = {}
  /\ dynamicData = {}
  /\ nextId = [adminUsers |-> 3, projects |-> 3, apiKeys |-> 1, dynamicData |-> 1,
               users |-> 1]
  /\ now = 1
  /\ resp = NoReply
  /\ inFlight = NoRequest
  /\ _db = "drizzle"
  /\ DATABASE_URL = "mysql://db"

NextStore ==
  \/ \E p \in StoreProjectIds, data \in Payloads, isPublic \in {{}, {TRUE}} :
        nextId.dynamicData <= MaxStoreData /\ db_insertDynamicData(p, data, isPublic)
  \/ \E d \in 1..MaxStoreData : db_getDynamicDataById(d)
  \/ \E permissions \in {NoPermissions, PermissionList({"read"})}, key \in KeyTokens :
        nextId.apiKeys <= MaxStoreKeys /\ db_createApiKey(1, permissions, key)
  \/ \E key \in KeyTokens : db_getApiKeyByKey(key)
  \/ \E k \in 1..2 : db_revokeApiKey(k)

SpecStore == InitStore /\ [][NextStore]_vars

---------------------------------------------------------------------------
(* Properties *)

\* the call of the last step passed the adminProcedure middleware's condition:
\* it carried an end-user identity and an admin session
CalledAsAdmin == resp.ctx.user # NULL /\ resp.ctx.adminSession # NoSession

ProjectIdProcedures ==
  {"projects.get", "projects.update", "projects.delete", "apiKeys.list",
   "apiKeys.create", "data.list", "data.create", "data.search"}

\* C1: a router procedure that takes a projectId, called with an end-user
\* identity under admin session A for a project that does not exist or whose
\* adminUserId is not A's id, answers FORBIDDEN.  (A project's owner never
\* changes and no project row is removed, so the owner after the call is the
\* owner the call saw.)
C1_NotOwnerForbidden ==
  (/\ resp.kind = "trpc"
   /\ resp.op \in ProjectIdProcedures
   /\ CalledAsAdmin
   /\ ~\E p \in projects : /\ p.id = resp.input.projectId
                           /\ p.adminUserId = SessionId(resp.ctx))
  => resp.code = "FORBIDDEN"

\* C1 witness: projects.delete on an existing project of another admin was
\* answered FORBIDDEN
C1_Witness ==
  /\ resp.kind = "trpc"
  /\ resp.op = "projects.delete"
  /\ CalledAsAdmin
  /\ resp.code = "FORBIDDEN"
  /\ \E p \in projects : /\ p.id = resp.input.projectId
                         /\ p.adminUserId # SessionId(resp.ctx)
                         /\ SessionId(resp.ctx) # 0

\* the project owning the row a by-id procedure targets is not the session's
NotOwnerOfTarget(r) ==
  \/ /\ r.op = "apiKeys.revoke"
     /\ \E k \in apiKeys, p \in projects :
          /\ k.id = r.input.apiKeyId
          /\ p.id = k.projectId
          /\ p.adminUserId # SessionId(r.ctx)
  \/ /\ r.op \in {"data.update", "data.delete"}
     /\ \E d \in dynamicData, p \in projects :
          /\ d.id = r.input.dataId
          /\ p.id = d.projectId
          /\ p.adminUserId # SessionId(r.ctx)

\* C2 (as claimed): apiKeys.revoke, data.update and data.delete answer
\* FORBIDDEN when the project owning the targeted key or datum belongs to
\* another admin than the session's.
C2_ByIdOwnerChecked ==
  [][(/\ resp'.kind = "trpc"
      /\ resp'.op \in {"apiKeys.revoke", "data.update", "data.delete"}
      /\ resp'.ctx.user # NULL /\ resp'.ctx.adminSession # NoSession
      /\ NotOwnerOfTarget(resp'))
     => resp'.code = "FORBIDDEN"]_vars

\* C3 (as claimed): a REST request whose key is bound to project P leaves every
\* datum of another project in place and unchanged, adds none to another
\* project, and returns only data of P.
C3_RestStaysInProject ==
  [][(resp'.kind = "rest" /\ resp'.ctx.ran)
     => /\ \A d \in dynamicData :
             d.projectId # resp'.ctx.projectId => d \in dynamicData'
        /\ \A d \in dynamicData' :
             d.projectId # resp'.ctx.projectId => d \in dynamicData
        /\ resp'.op \in {"GET /v1/data", "GET /api/v1/data/search"}
             => \A d \in resp'.result : d.projectId = resp'.ctx.projectId]_vars

\* C4: a procedure built on adminProcedure (every one but admin.login) answers
\* UNAUTHORIZED when the context lacks the end-user identity or the admin
\* session.
C4_AdminProcedureNeedsBoth ==
  (/\ resp.kind = "trpc"
   /\ resp.op # "admin.login"
   /\ (resp.ctx.user = NULL \/ resp.ctx.adminSession = NoSession))
  => resp.code = "UNAUTHORIZED"

\* C4 witness: a call with an admin session but no end-user identity was
\* answered UNAUTHORIZED
C4_Witness ==
  /\ resp.kind = "trpc"
  /\ resp.op = "projects.create"
  /\ resp.ctx.user = NULL
  /\ resp.ctx.adminSession = AdminSession(1)
  /\ resp.code = "UNAUTHORIZED"

\* C5: a router call answered UNAUTHORIZED or FORBIDDEN left every table (and
\* every auto-increment counter) as it was.
C5_RejectedCallWritesNothing ==
  [][(resp'.kind = "trpc" /\ resp'.code \in {"UNAUTHORIZED", "FORBIDDEN"})
     => (tables' = tables /\ nextId' = nextId)]_vars

\* C5 witness: projects.delete answered FORBIDDEN and the project is still active
C5_Witness ==
  /\ resp.kind = "trpc"
  /\ resp.op = "projects.delete"
  /\ resp.code = "FORBIDDEN"
  /\ \E p \in projects : p.id = resp.input.projectId /\ p.isActive

\* C6: a REST request without a key (header absent or empty) is answered 401
\* "Missing API key"; one whose key matches no row, or a row that is not
\* active, is answered 401 "Invalid or revoked API key"; in both cases the
\* handler did not run and no table changed.
C6_KeyRejected ==
  [][resp'.kind = "rest"
     => LET h == resp'.ctx.header
            rejected == /\ resp'.code = "401"
                        /\ ~resp'.ctx.ran
                        /\ tables' = tables
                        /\ nextId' = nextId
        IN  /\ (h = NULL \/ h = "") => (rejected /\ resp'.msg = "Missing API key")
            /\ (/\ h # NULL
                /\ h # ""
                /\ \A k \in apiKeys : k.key = h => ~k.isActive)
               => (rejected /\ resp'.msg = "Invalid or revoked API key")]_vars

\* C6 witness: a request presenting the key of an inactive row was answered
\* 401 "Invalid or revoked API key"
C6_Witness ==
  /\ resp.kind = "rest"
  /\ resp.op = "POST /api/v1/data"
  /\ resp.code = "401"
  /\ resp.msg = "Invalid or revoked API key"
  /\ \E k \in apiKeys : k.key = resp.ctx.header /\ ~k.isActive

\* C7: revocation leaves the key's row in place with its active flag false; a
\* row that is inactive stays as it is, and a REST request presenting its key
\* is answered 401 and changes no datum.
C7_RevokedKeyStaysOut ==
  [][/\ (resp'.kind = "trpc" /\ resp'.op = "apiKeys.revoke" /\ resp'.code = "OK")
        => \A k \in apiKeys :
             k.id = resp'.input.apiKeyId => [k EXCEPT !.isActive = FALSE] \in apiKeys'
     /\ \A k \in apiKeys :
          ~k.isActive
          => /\ k \in apiKeys'
             /\ (resp'.kind = "rest" /\ resp'.ctx.header = k.key)
                => (resp'.code = "401" /\ dynamicData' = dynamicData)]_vars

\* C7 witness: after a revocation, a PUT presenting the revoked key was
\* answered 401 while a datum is stored
C7_Witness ==
  /\ resp.kind = "rest"
  /\ resp.op = "PUT /api/v1/data/:id"
  /\ resp.code = "401"
  /\ dynamicData # {}
  /\ \E k \in apiKeys : k.key = resp.ctx.header /\ ~k.isActive

\* the step is a call of the identity service's operation op (the clock does not
\* move during a call, and a step that only moves the clock leaves the last
\* reply in place)
AuthCall(op) == resp'.kind = "auth" /\ resp'.op = op /\ now' = now

\* C8: authenticateAdmin returns; it returns null and writes nothing when no
\* account has the e-mail, the account is inactive or the password is not the
\* one the stored hash was made from; otherwise it returns exactly
\* {id, email, name} of the account and sets that account's lastSignedIn to now,
\* changing nothing else.
C8_AuthenticateAdmin ==
  [][AuthCall("authenticateAdmin")
     => LET e == resp'.input.email
            pw == resp'.input.password
            ok == {a \in adminUsers :
                     a.email = e /\ a.isActive /\ a.passwordHash.digest = pw}
        IN  /\ resp'.code = "returned"
            /\ ok = {} => (resp'.result = {} /\ adminUsers' = adminUsers)
            /\ ok # {} =>
                 \E a \in ok :
                   /\ resp'.result = {[id |-> a.id, email |-> a.email, name |-> a.name]}
                   /\ adminUsers' =
                        (adminUsers \ {a}) \cup {[a EXCEPT !.lastSignedIn = now]}]_vars

\* C8 witness: a successful authentication at time 2 stamped the account
C8_Witness ==
  /\ resp.kind = "auth"
  /\ resp.op = "authenticateAdmin"
  /\ now = MaxTime
  /\ \E r \in resp.result, a \in adminUsers :
       a.id = r.id /\ a.lastSignedIn = now /\ DOMAIN r = {"id", "email", "name"}

\* authenticateAdmin(email, password) would return an account, were the account
\* table as given
Authenticates(accounts, email, password) ==
  \E a \in accounts :
    a.email = email /\ a.isActive /\ comparePassword(password, a.passwordHash)

\* C9: starting from no accounts, after any createAdminUser calls no two
\* accounts share an e-mail; a call on an e-mail already stored adds no row,
\* afterwards the password just given authenticates and the password stored
\* before, when it is another one, does not.
C9_OneAccountPerEmail ==
  /\ [](\A a, b \in adminUsers : a.email = b.email => a = b)
  /\ [][(/\ AuthCall("createAdminUser")
         /\ \E a \in adminUsers : a.email = resp'.input.email)
        => /\ Cardinality(adminUsers') = Cardinality(adminUsers)
           /\ Authenticates(adminUsers', resp'.input.email, resp'.input.password)
           /\ \A a \in adminUsers :
                (a.email = resp'.input.email
                 /\ a.passwordHash.digest # resp'.input.password)
                => ~Authenticates(adminUsers', a.email, a.passwordHash.digest)]_vars

\* C9 witness: createAdminUser with password pw2 ran on an account that had
\* signed in before (so it existed), and two accounts are stored
C9_Witness ==
  /\ resp.kind = "auth"
  /\ resp.op = "createAdminUser"
  /\ resp.input.password = "pw2"
  /\ Cardinality(adminUsers) = 2
  /\ \E a \in adminUsers :
       a.email = resp.input.email /\ a.lastSignedIn > 0 /\ a.passwordHash.digest = "pw2"

\* C10: createAdminUser on an e-mail already stored keeps the account's id,
\* e-mail, active flag and lastSignedIn, stores the hash of the new password
\* and the given (or default) name, and changes no other account; an inactive
\* account still cannot authenticate with the new password.
C10_UpsertFrame ==
  [][AuthCall("createAdminUser")
     => \A a \in adminUsers :
          IF a.email = resp'.input.email
            THEN /\ \E b \in adminUsers' :
                      /\ b.id = a.id
                      /\ b.email = a.email
                      /\ b.isActive = a.isActive
                      /\ b.lastSignedIn = a.lastSignedIn
                      /\ b.passwordHash.digest = resp'.input.password
                 /\ Cardinality(adminUsers') = Cardinality(adminUsers)
                 /\ ~a.isActive
                      => ~Authenticates(adminUsers', a.email, resp'.input.password)
            ELSE a \in adminUsers']_vars

\* C10 witness: createAdminUser gave the deactivated account a new password
\* and the account is still inactive
C10_Witness ==
  /\ resp.kind = "auth"
  /\ resp.op = "createAdminUser"
  /\ \E a \in adminUsers :
       /\ a.email = resp.input.email
       /\ ~a.isActive
       /\ a.passwordHash.digest = "pw2"

DbCall(op) == resp'.kind = "db" /\ resp'.op = op /\ now' = now

\* C15: upsertUser throws, and then its validation error, exactly when the
\* identifier is missing or empty, with or without a datastore connection, and
\* a throwing call writes nothing; with an identifier and no connection it
\* returns and the end-user table is as it was.
C15_UpsertUserValidation ==
  [][DbCall("upsertUser")
     => LET noId == resp'.input.openId \in {UNDEFINED, ""} IN
        /\ resp'.code = "throws" <=> noId
        /\ resp'.code = "throws"
             => (/\ resp'.msg = "User openId is required for upsert"
                 /\ tables' = tables)
        /\ (~noId /\ getDb = NULL) => (resp'.code = "returned" /\ users' = users)]_vars

\* C15 witness: upsertUser for the owner identifier returned on a server
\* without a connection, and no end user is stored
C15_Witness ==
  /\ resp.kind = "db"
  /\ resp.op = "upsertUser"
  /\ resp.code = "returned"
  /\ resp.input.openId = ownerOpenId
  /\ _db = NULL
  /\ DATABASE_URL = NULL
  /\ users = {}

\* C16 (as claimed): upsertUser on an identifier already stored, the owner's
\* included, writes exactly the supplied ones of name, email, login method,
\* role and last-signed-in, refreshes last-signed-in to now when none of them
\* was supplied, and leaves every other field and every other row as it was.
C16_UpsertWritesOnlySupplied ==
  [][(/\ DbCall("upsertUser")
      /\ resp'.code = "returned"
      /\ getDb # NULL
      /\ \E u \in users : u.openId = resp'.input.openId)
     => LET in == resp'.input
            noneSupplied == /\ in.name = UNDEFINED
                            /\ in.email = UNDEFINED
                            /\ in.loginMethod = UNDEFINED
                            /\ in.role = UNDEFINED
                            /\ in.lastSignedIn = 0
        IN  \A u \in users :
              IF u.openId = in.openId
                THEN [id |-> u.id,
                      openId |-> u.openId,
                      name |-> IF in.name = UNDEFINED THEN u.name ELSE in.name,
                      email |-> IF in.email = UNDEFINED THEN u.email ELSE in.email,
                      loginMethod |-> IF in.loginMethod = UNDEFINED THEN u.loginMethod
                                      ELSE in.loginMethod,
                      role |-> IF in.role = UNDEFINED THEN u.role ELSE in.role,
                      lastSignedIn |-> IF in.lastSignedIn # 0 THEN in.lastSignedIn
                                       ELSE IF noneSupplied THEN now
                                       ELSE u.lastSignedIn] \in users'
                ELSE u \in users']_vars

\* C17 (as claimed): without a datastore connection every helper of db.ts and
\* auth.ts but upsertUser throws "Database not available"; none returns.
C17_UnavailableWithoutConnection ==
  [][(/\ resp'.kind \in {"db", "auth"}
      /\ resp'.op # "upsertUser"
      /\ now' = now
      /\ getDb = NULL)
     => (resp'.code = "throws" /\ resp'.msg = "Database not available")]_vars

\* two JSON values are deep-equal: the same kind and the same members,
\* whatever their order
deepEqual(a, b) ==
  /\ a.t = b.t
  /\ Len(a.kv) = Len(b.kv)
  /\ {a.kv[i] : i \in DOMAIN a.kv} = {b.kv[i] : i \in DOMAIN b.kv}

\* C12: getDynamicDataById called right after insertDynamicData, on the id the
\* insert returned, returns one record: its payload is deep-equal to the
\* inserted one, its projectId is the given one (whether or not a project has
\* that id), and its public flag is false when none was supplied.
C12_InsertThenGetRoundTrip ==
  [][(/\ DbCall("getDynamicDataById")
      /\ resp.kind = "db"
      /\ resp.op = "insertDynamicData"
      /\ resp.code = "returned"
      /\ \E x \in resp.result : x.insertId = resp'.input.dataId)
     => \E r \in resp'.result :
          /\ resp'.result = {r}
          /\ resp'.code = "returned"
          /\ deepEqual(r.data, resp.input.data)
          /\ r.projectId = resp.input.projectId
          /\ resp.input.isPublic = {} => ~r.isPublic]_vars

\* C12 witness: a payload whose keys were not in sorted order, inserted under
\* a project id that no project has, was read back by its id
C12_Witness ==
  /\ resp.kind = "db"
  /\ resp.op = "getDynamicDataById"
  /\ \E r \in resp.result :
       /\ r.projectId = 3
       /\ getProjectById(r.projectId) = {}
       /\ deepEqual(r.data, Doc1)
       /\ r.data # Doc1
       /\ ~r.isPublic

\* C19: whatever createApiKey calls were made, and whatever tokens the
\* generator produced for them, no two API-key rows hold the same key string;
\* a call that returns has added one row, active, under the given project,
\* with permissions read and write when no permission list was supplied.
C19_KeyStringsUnique ==
  /\ [](\A k1, k2 \in apiKeys : k1.key = k2.key => k1 = k2)
  /\ [][(DbCall("createApiKey") /\ resp'.code = "returned")
        => \E k \in apiKeys' :
             /\ k \notin apiKeys
             /\ apiKeys' = apiKeys \cup {k}
             /\ k.isActive
             /\ k.projectId = resp'.input.projectId
             /\ ~resp'.input.permissions.given => k.permissions = DefaultPermissions]_vars

\* C19 witness: the generator produced a token that is already stored, the
\* call threw, and the two stored keys differ; one was made without a
\* permission list
C19_Witness ==
  /\ resp.kind = "db"
  /\ resp.op = "createApiKey"
  /\ resp.code = "throws"
  /\ Cardinality(apiKeys) = 2
  /\ \E k \in apiKeys : k.permissions = DefaultPermissions /\ k.isActive
  /\ \E k \in apiKeys : k.permissions = {"read"}

C14_DataFieldRequired ==
  [][(/\ resp'.kind = "rest"
      /\ resp'.op \in {"POST /api/v1/data", "PUT /api/v1/data/:id"}
      /\ resp'.ctx.ran)
     => LET data == resp'.input.data
            absent == data.t = "undefined"
        IN  /\ absent => (resp'.code = "400" /\ dynamicData' = dynamicData)
            /\ (~absent /\ resp'.op = "POST /api/v1/data")
                 => /\ resp'.code = "201"
                    /\ \E d \in dynamicData' :
                         /\ d \notin dynamicData
                         /\ dynamicData' = dynamicData \cup {d}
                         /\ d.projectId = resp'.ctx.projectId
            /\ (~absent /\ resp'.op = "PUT /api/v1/data/:id")
                 => /\ resp'.code = "200"
                    /\ \A d \in dynamicData' :
                         d.id = resp'.input.id.v => deepEqual(d.data, data)]_vars

\* C18: projects.list called with an end-user identity under an admin session
\* with id A returns, and what it returns is every stored project whose owner
\* id is A, soft-deleted ones included, and no project of another owner.
C18_ListOwnProjects ==
  [][(/\ resp'.kind = "trpc"
      /\ resp'.op = "projects.list"
      /\ resp'.ctx.user # NULL
      /\ resp'.ctx.adminSession # NoSession
      /\ SessionId(resp'.ctx) # 0)
     => /\ resp'.code = "OK"
        /\ resp'.result \subseteq projects'
        /\ \A p \in projects' :
             p \in resp'.result <=> p.adminUserId = SessionId(resp'.ctx)]_vars

\* C18 witness: three projects are stored, two of admin 1 (one soft-deleted)
\* and one of admin 2, and admin 1's list holds exactly its two
C18_Witness ==
  /\ resp.kind = "trpc"
  /\ resp.op = "projects.list"
  /\ resp.code = "OK"
  /\ SessionId(resp.ctx) = 1
  /\ Cardinality(projects) = 3
  /\ Cardinality(resp.result) = 2
  /\ \E p \in resp.result : ~p.isActive
  /\ \E p \in projects : p.adminUserId = 2

\* the part of an address before its first "@": the prefix that holds no "@"
\* and is followed by one (the whole address when it holds none)
BeforeFirstAt(email) ==
  CHOOSE p \in {SubSeq(email, 1, n) : n \in 0..Len(email)} :
    /\ \A i \in DOMAIN p : p[i] # "@"
    /\ Len(p) = Len(email) \/ email[Len(p) + 1] = "@"

\* C20: createAdminUser without a name stores the part of the e-mail before
\* its first "@" as the account's name, and with a name stores that name;
\* an authenticateAdmin that succeeds returns the name the account stores.
C20_NameDefaultsToPrefix ==
  [][/\ (AuthCall("createAdminUser") /\ resp'.code = "returned")
          => \E a \in adminUsers' :
               /\ a.email = resp'.input.email
               /\ a.name = IF resp'.input.name = <<>>
                             THEN BeforeFirstAt(resp'.input.email)
                             ELSE resp'.input.name
     /\ AuthCall("authenticateAdmin")
          => \A r \in resp'.result :
               \E a \in adminUsers : a.email = resp'.input.email /\ r.name = a.name]_vars

\* C20 witness: the account of an address with two "@", made without a name,
\* authenticated and the name returned is the part before the first "@"
C20_Witness ==
  /\ resp.kind = "auth"
  /\ resp.op = "authenticateAdmin"
  /\ resp.input.email = EmailB
  /\ \E r \in resp.result : r.name = <<"b">> /\ r.name = BeforeFirstAt(EmailB)
  /\ \E a \in adminUsers : a.email = EmailB /\ a.name = <<"b">>

---------------------------------------------------------------------------
(* SpecHandle: the process-wide handle.  getDb and two helpers that ask it  *)
(* for the handle are called on a server that starts without a handle and   *)
(* whose DATABASE_URL is not set, malformed or good, and may be given       *)
(* another value while the server runs.                                     *)

\* values of process.env.DATABASE_URL
DatabaseUrls == {NULL, "malformed", "mysql://db", "mysql://db2"}

\* arguments of upsertUser in SpecHandle
HandleUserInputs ==
  {[openId |-> o, name |-> n, email |-> UNDEFINED, loginMethod |-> UNDEFINED,
    role |-> UNDEFINED, lastSignedIn |-> 0] : o \in {"", "o2"}, n \in {UNDEFINED, "n"}}

InitHandle ==
  /\ users = {}
  /\ adminUsers = {}
  /\ projects = {}
  /\ apiKeys = {}
  /\ dynamicData = {}
  /\ nextId = [adminUsers |-> 1, projects |-> 1, apiKeys |-> 1, dynamicData |-> 1,
               users |-> 1]
  /\ now = 1
  /\ resp = NoReply
  /\ inFlight = NoRequest
  /\ _db = NULL
  /\ DATABASE_URL \in DatabaseUrls

NextHandle ==
  \/ db_getDb
  \/ \E url \in DatabaseUrls : setDatabaseUrl(url)
  \/ \E user \in HandleUserInputs : upsertUser(user)
  \/ getUserByOpenId("o2")
  \/ Tick

SpecHandle == InitHandle /\ [][NextHandle]_vars

\* the step is a call of getDb (a change of the configuration is not one)
GetDbCall == DbCall("getDb") /\ DATABASE_URL' = DATABASE_URL

\* C21 (as stated): once a handle has been made every later getDb call returns
\* it; once a getDb call has left the handle unset (creation failed, or no
\* connection string was configured), a later getDb call does not call
\* drizzle() again and the handle stays unset.
C21_HandleSetOnceOrNever ==
  [][GetDbCall =>
       /\ (_db # NULL => resp'.result = {_db} /\ _db' = _db)
       /\ (resp.kind = "db" /\ resp.op = "getDb" /\ _db = NULL =>
             ~resp'.ctx.drizzleCalled /\ _db' = NULL)]_vars

\* C21 (amended): the handle, once made, is never replaced or unset, and every
\* later getDb call returns it without calling drizzle(); while the handle is
\* unset a getDb call calls drizzle() exactly when a connection string is
\* configured at that call, also after an earlier call failed: it returns the
\* handle made, or null with a warning when drizzle() threw.
C21_HandleReusedRetriedWhileUnset ==
  [][/\ (_db # NULL => _db' = _db)
     /\ (GetDbCall =>
           /\ (_db # NULL =>
                 resp'.result = {_db} /\ ~resp'.ctx.drizzleCalled /\ resp'.msg = NULL)
           /\ (_db = NULL =>
                 /\ resp'.ctx.drizzleCalled <=> DATABASE_URL # NULL
                 /\ resp'.result = {_db'}
                 /\ _db' # NULL <=> DATABASE_URL \in {"mysql://db", "mysql://db2"}
                 /\ resp'.msg # NULL <=> DATABASE_URL = "malformed"))]_vars

\* getDb has returned, without calling drizzle(), the handle made from one
\* connection string after the configuration was changed to another
C21_Witness ==
  /\ resp.kind = "db" /\ resp.op = "getDb"
  /\ _db = "drizzle" /\ DATABASE_URL = "mysql://db2"
  /\ resp.result = {"drizzle"} /\ ~resp.ctx.drizzleCalled

---------------------------------------------------------------------------
(* SpecRestDown: the REST facade on a server that cannot make a datastore   *)
(* handle (DATABASE_URL not set, or malformed), over the seeded tables.     *)

InitRestDown ==
  /\ users = {}
  /\ adminUsers = SeedAdminUsers
  /\ projects = SeedProjects
  /\ apiKeys = SeedApiKeys
  /\ dynamicData = SeedData
  /\ nextId = [adminUsers |-> 3, projects |-> 3, apiKeys |-> 3, dynamicData |-> 2,
               users |-> 1]
  /\ now = 1
  /\ resp = NoReply
  /\ inFlight = NoRequest
  /\ _db = NULL
  /\ DATABASE_URL \in {NULL, "malformed"}

NextRestDown ==
  \/ \E header \in KeyHeaders, query \in RestListQueries : rest_list(header, query)
  \/ \E header \in KeyHeaders, body \in RestCreateBodies : rest_create(header, body)
  \/ \E header \in KeyHeaders, input \in RestUpdateInputs : rest_update(header, input)
  \/ \E header \in KeyHeaders, input \in RestDeleteInputs : rest_delete(header, input)
  \/ \E header \in KeyHeaders, query \in RestSearchQueries : rest_search(header, query)
  \/ \E header \in KeyHeaders : rest_project(header)

SpecRestDown == InitRestDown /\ [][NextRestDown]_vars

\* C22: every request to a key-authenticated REST endpoint is answered, and
\* with a JSON body: a request during which an error was raised (the datastore
\* unavailable while the key is resolved, a malformed :id, a failed datastore
\* call) is answered 500 with the body {error: message}.
C22_EveryErrorAnswered500 ==
  resp.kind = "rest" =>
    /\ resp.code \in {"200", "201", "400", "401", "404", "500"}
    /\ (resp.code = "500" => resp.msg # NULL)
    /\ (resp.ctx.header \notin {NULL, ""} /\ _db = NULL =>
          resp.code = "500" /\ resp.msg = "Database not available")

---------------------------------------------------------------------------
(* Request context (createContext) *)

\* JSON text is a sequence of tokens; a value token is a number, a string (a
\* character sequence) or null
LBrace == [tok |-> "{"]

RBrace == [tok |-> "}"]

Key(name) == [tok |-> "key", name |-> name]

Num(n) == [tok |-> "number", n |-> n]

Str(chars) == [tok |-> "string", chars |-> chars]

Null == [tok |-> "null"]

\* JSON.stringify(admin) of the reduced record {id, email, name}: the members
\* in the order of the object literal
JSON_stringify(admin) ==
  <<LBrace, Key("id"), Num(admin.id), Key("email"), Str(admin.email),
    Key("name"), Str(admin.name), RBrace>>

\* the text is an object literal: braces around key / value pairs
isObjectText(text) ==
  /\ Len(text) >= 2
  /\ text[1] = LBrace
  /\ text[Len(text)] = RBrace
  /\ (Len(text) - 2) % 2 = 0
  /\ \A i \in 1..((Len(text) - 2) \div 2) :
       /\ text[2 * i].tok = "key"
       /\ text[2 * i + 1].tok \in {"number", "string", "null"}

\* the members of an object literal, as <<name, value token>> pairs
membersOf(text) ==
  [i \in 1..((Len(text) - 2) \div 2) |-> <<text[2 * i].name, text[2 * i + 1]>>]

\* the id of the parsed object: its numeric member "id", 0 when it has none
idOf(members) ==
  IF \E i \in DOMAIN members : members[i][1] = "id" /\ members[i][2].tok = "number"
    THEN (CHOOSE v \in {members[i][2] : i \in {j \in DOMAIN members : members[j][1] = "id"}}
            : v.tok = "number").n
    ELSE 0

\* JSON.parse(text): the literal null, a number (a value without members or
\* id), an object, or a SyntaxError (any other text tried here is malformed)
JSON_parse(text) ==
  IF text = <<Null>> THEN [ok |-> TRUE, value |-> NoSession]
  ELSE IF Len(text) = 1 /\ text[1].tok = "number"
    THEN [ok |-> TRUE, value |-> [tag |-> "session", id |-> 0, members |-> <<>>]]
  ELSE IF isObjectText(text)
    THEN [ok |-> TRUE,
          value |-> [tag |-> "session", id |-> idOf(membersOf(text)),
                     members |-> membersOf(text)]]
  ELSE [ok |-> FALSE, value |-> NoSession]

\* a request: what sdk.authenticateRequest does with it ("throws", or the user
\* it returns) and its admin_session cookie (absent, or a text)
Request(sdk, present, text) == [sdk |-> sdk, cookie |-> [present |-> present, text |-> text]]

\* variant: the SyntaxError of JSON.parse is not caught
createContextResult_uncaught(req) ==
  [code |-> IF req.cookie.present /\ req.cookie.text # <<>>
                 /\ ~JSON_parse(req.cookie.text).ok
              THEN "throws" ELSE "returned",
   user |-> IF req.sdk = "throws" THEN NULL ELSE req.sdk,
   adminSession |-> IF req.cookie.present /\ req.cookie.text # <<>>
                      THEN JSON_parse(req.cookie.text).value ELSE NoSession]

\* createContext: both lookups are wrapped in try/catch; an absent or empty
\* cookie is falsy and not parsed
createContextResult(req) ==
  [code |-> "returned",
   user |-> IF req.sdk = "throws" THEN NULL ELSE req.sdk,
   adminSession |-> IF req.cookie.present /\ req.cookie.text # <<>>
                         /\ JSON_parse(req.cookie.text).ok
                      THEN JSON_parse(req.cookie.text).value ELSE NoSession]

createContext(req) ==
  LET r == createContextResult(req) IN
  /\ resp' = Reply("ctx", "createContext", NoContext, req, r.code, NULL,
                   IF r.code = "returned"
                     THEN {[user |-> r.user, adminSession |-> r.adminSession]} ELSE {})
  /\ UNCHANGED <<tables, nextId, now, inFlight, connection>>

---------------------------------------------------------------------------
(* SpecContext: createContext called on requests whose end-user lookup      *)
(* throws or returns, and whose admin_session cookie is absent, empty,      *)
(* written by admin.login, cut short, or forged.                            *)

\* the reduced records admin.login serializes into the cookie
SessionRecords == [id : {1, 2}, email : Emails, name : {<<"a">>, <<"N">>}]

\* cookie texts that JSON.parse rejects: a serialized record cut before its
\* closing brace or after a key, and a lone brace
MalformedTexts ==
  {SubSeq(JSON_stringify(r), 1, 7) : r \in SessionRecords}
  \cup {SubSeq(JSON_stringify(r), 1, 2) \o <<RBrace>> : r \in SessionRecords}
  \cup {<<LBrace>>}

\* cookie texts a client made up: null, a number, an object with only an id,
\* an object whose name is null, an empty object
ForgedTexts ==
  {<<Null>>, <<Num(2)>>, <<LBrace, Key("id"), Num(2), RBrace>>,
   <<LBrace, Key("id"), Num(1), Key("email"), Str(EmailA), Key("name"), Null, RBrace>>,
   <<LBrace, RBrace>>}

CookieTexts ==
  {JSON_stringify(r) : r \in SessionRecords} \cup MalformedTexts \cup ForgedTexts

Requests ==
  {Request(sdk, present, text)
     : sdk \in {"throws", "u1", "u2"}, present \in {TRUE}, text \in CookieTexts \cup {<<>>}}
  \cup {Request(sdk, FALSE, <<>>) : sdk \in {"throws", "u1", "u2"}}

InitContext ==
  /\ users = {}
  /\ adminUsers = SeedAdminUsers
  /\ projects = {}
  /\ apiKeys = {}
  /\ dynamicData = {}
  /\ nextId = [adminUsers |-> 3, projects |-> 1, apiKeys |-> 1, dynamicData |-> 1,
               users |-> 1]
  /\ now = 1
  /\ resp = NoReply
  /\ inFlight = NoRequest
  /\ _db = "drizzle"
  /\ DATABASE_URL = "mysql://db"

NextContext ==
  \/ \E req \in Requests : createContext(req)
  \/ Tick

SpecContext == InitContext /\ [][NextContext]_vars

\* the {id, email, name} record an adminSession holds
sessionRecord(s) ==
  [id |-> s.id,
   email |-> (CHOOSE m \in {s.members[i] : i \in DOMAIN s.members} : m[1] = "email")[2].chars,
   name |-> (CHOOSE m \in {s.members[i] : i \in DOMAIN s.members} : m[1] = "name")[2].chars]

\* C23: createContext never throws; when the end-user lookup throws the
\* context's user is null; when the admin_session cookie is absent, empty or
\* not parsable adminSession is null; when the cookie holds a serialized record
\* {id, email, name}, adminSession is that record.
C23_CreateContextNeverFails ==
  resp.kind = "ctx" =>
    /\ resp.code = "returned"
    /\ \E c \in resp.result :
         /\ resp.result = {c}
         /\ (resp.input.sdk = "throws" => c.user = NULL)
         /\ (resp.input.sdk # "throws" => c.user = resp.input.sdk)
         /\ (~resp.input.cookie.present \/ resp.input.cookie.text = <<>>
               \/ resp.input.cookie.text \in MalformedTexts
               => c.adminSession = NoSession)
         /\ \A r \in SessionRecords :
              resp.input.cookie.present /\ resp.input.cookie.text = JSON_stringify(r)
                => c.adminSession # NoSession /\ sessionRecord(c.adminSession) = r

\* a request whose end-user lookup threw and whose cookie was cut short got a
\* context with neither identity
C23_Witness ==
  /\ resp.kind = "ctx"
  /\ resp.input.sdk = "throws"
  /\ resp.input.cookie.text \in MalformedTexts
  /\ resp.result = {[user |-> NULL, adminSession |-> NoSession]}

\* C24: no response of a router procedure (admin.login and admin.getAdminInfo
\* included) contains the password hash of an admin account.
C24_NoHashInResponses ==
  resp.kind = "trpc" => \A r \in resp.result : "passwordHash" \notin DOMAIN r

---------------------------------------------------------------------------
(* SpecRace: REST write requests whose middleware and handler are separate  *)
(* steps (the handler runs after an await), interleaved with revokeApiKey   *)
(* called by another request, over the seeded projects and keys.            *)

\* the handler of the request in flight
next ==
  /\ inFlight # NoRequest
  /\ inFlight' = NoRequest
  /\ IF inFlight.op = "POST /api/v1/data" THEN post_data(inFlight.header, inFlight.input)
     ELSE IF inFlight.op = "PUT /api/v1/data/:id"
       THEN put_data(inFlight.header, inFlight.input)
     ELSE delete_data(inFlight.header, inFlight.input)

NextRace ==
  \/ \E header \in KeyHeaders, body \in WriteBodies :
        nextId.dynamicData <= MaxRestData
          /\ authenticateApiKey("POST /api/v1/data", header, body)
  \/ \E header \in KeyHeaders, input \in WriteUpdateInputs :
        authenticateApiKey("PUT /api/v1/data/:id", header, input)
  \/ \E header \in KeyHeaders, input \in RestDeleteInputs :
        authenticateApiKey("DELETE /api/v1/data/:id", header, input)
  \/ next
  \/ \E k \in {1, 2} : db_revokeApiKey(k)

SpecRace == InitRest /\ [][NextRace]_vars

\* the key string is stored on an active key row
ActiveKey(key) == \E k \in apiKeys : k.key = key /\ k.isActive

\* C25 (as stated): however a REST write request presenting key K and a call
\* of revokeApiKey(K) interleave, no insert, update or delete of dynamic data
\* made for that request takes effect once the revocation is committed.
C25_NoWriteAfterRevocation ==
  [][dynamicData' # dynamicData /\ resp'.kind = "rest" => ActiveKey(resp'.ctx.header)]_vars

\* C25 (amended): a REST write request is passed on to its handler only if its
\* key is active when authenticateApiKey looks it up, and only a request passed
\* on changes dynamic data: a request whose key check runs after the
\* revocation is committed is answered 401 and writes nothing, while one whose
\* key check ran before it may still write after it.
C25_NoWriteOnceCheckedAfterRevocation ==
  [][/\ (inFlight' # inFlight /\ inFlight' # NoRequest => ActiveKey(inFlight'.header))
     /\ (dynamicData' # dynamicData =>
           /\ inFlight # NoRequest /\ inFlight' = NoRequest
           /\ resp'.kind = "rest" /\ resp'.ctx.header = inFlight.header)
     /\ (resp'.kind = "rest" /\ inFlight = NoRequest /\ inFlight' = NoRequest
           /\ resp'.ctx.header # NULL =>
           /\ ~ActiveKey(resp'.ctx.header)
           /\ resp'.code = "401"
           /\ dynamicData' = dynamicData)]_vars

\* a request admitted while its key was active has inserted a record after the
\* key was revoked
C25_Witness ==
  /\ resp.kind = "rest" /\ resp.code = "201"
  /\ ~ActiveKey(resp.ctx.header)
  /\ inFlight = NoRequest
  /\ dynamicData # {}

\* C26: every call of an admin procedure that succeeds ran under an admin
\* session whose id is the id of a stored admin account that is active: a
\* session naming no account, or a deactivated one, gets nothing done.
C26_SessionNamesActiveAccount ==
  resp.kind = "trpc" /\ resp.code = "OK" /\ resp.op # "admin.login" =>
    \E a \in adminUsers : a.id = SessionId(resp.ctx) /\ a.isActive

---------------------------------------------------------------------------
(* SpecPerm: the REST facade and key revocation over the seeded projects.   *)
(* The key of project 1 carries any of three permission lists (read and     *)
(* write, read only, empty), the key of project 2 is read-only.             *)

\* permission lists a key may have been created with
PermissionLists == {DefaultPermissions, {"read"}, {}}

InitPerm ==
  /\ users = {}
  /\ adminUsers = SeedAdminUsers
  /\ projects = SeedProjects
  /\ \E p1 \in PermissionLists :
       apiKeys = {[k EXCEPT !.permissions = IF k.id = 1 THEN p1 ELSE {"read"}]
                    : k \in SeedApiKeys}
  /\ dynamicData = {}
  /\ nextId = [adminUsers |-> 3, projects |-> 3, apiKeys |-> 3, dynamicData |-> 1,
               users |-> 1]
  /\ now = 1
  /\ resp = NoReply
  /\ inFlight = NoRequest
  /\ _db = "drizzle"
  /\ DATABASE_URL = "mysql://db"

NextPerm ==
  \/ \E header \in KeyHeaders : rest_list(header, [limit |-> NoParam, offset |-> NoParam])
  \/ \E header \in KeyHeaders, body \in WriteBodies :
        nextId.dynamicData <= MaxRestData /\ rest_create(header, body)
  \/ \E header \in KeyHeaders, input \in WriteUpdateInputs : rest_update(header, input)
  \/ \E header \in KeyHeaders, input \in RestDeleteInputs : rest_delete(header, input)
  \/ \E header \in KeyHeaders, query \in RestSearchQueries : rest_search(header, query)
  \/ \E header \in KeyHeaders : rest_project(header)
  \/ \E k \in {1, 2} : db_revokeApiKey(k)

SpecPerm == InitPerm /\ [][NextPerm]_vars

\* the step is a REST request (a step of revokeApiKey leaves a "db" reply)
RestCall == resp'.kind = "rest" /\ now' = now

\* the stored key rows a header names
KeyRows(header) == {k \in apiKeys : k.key = header}

\* what a handler that ran answers and writes, given only the project the key
\* is bound to, the request and the stored data
HandlerOutcome(p) ==
  LET op == resp'.op
      input == resp'.input
  IN  IF op = "POST /api/v1/data"
        THEN IF falsy(input.data)
               THEN resp'.code = "400" /\ dynamicData' = dynamicData
               ELSE /\ resp'.code = "201"
                    /\ \E d \in dynamicData' \ dynamicData :
                         /\ dynamicData' = dynamicData \cup {d}
                         /\ d.projectId = p /\ deepEqual(d.data, input.data)
      ELSE IF op = "PUT /api/v1/data/:id"
        THEN IF ~input.id.ok THEN resp'.code = "500" /\ dynamicData' = dynamicData
             ELSE IF falsy(input.data) THEN resp'.code = "400" /\ dynamicData' = dynamicData
             ELSE /\ resp'.code = "200"
                  /\ \A d \in dynamicData : d.id # input.id.v => d \in dynamicData'
                  /\ \A d \in dynamicData' :
                       d.id = input.id.v => deepEqual(d.data, input.data)
                  /\ Cardinality(dynamicData') = Cardinality(dynamicData)
      ELSE IF op = "DELETE /api/v1/data/:id"
        THEN IF ~input.id.ok THEN resp'.code = "500" /\ dynamicData' = dynamicData
             ELSE resp'.code = "200"
                    /\ dynamicData' = {d \in dynamicData : d.id # input.id.v}
      ELSE IF op = "GET /v1/data"
        THEN /\ resp'.code = "200" /\ dynamicData' = dynamicData
             /\ resp'.result = {d \in dynamicData : d.projectId = p}
      ELSE IF op = "GET /api/v1/data/search"
        THEN /\ resp'.code = "200" /\ dynamicData' = dynamicData
             /\ resp'.result =
                  {d \in dynamicData : /\ d.projectId = p
                                       /\ (input.userId # NULL => d.userId = input.userId)
                                       /\ (input.dataType # NULL => d.dataType = input.dataType)}
      ELSE /\ resp'.code = "200" /\ dynamicData' = dynamicData
           /\ \E r \in resp'.result : r.id = p

\* C27: the permission list of an API key plays no part in a REST outcome.
\* Whatever lists the keys carry, a request is passed to its handler exactly
\* when its header names an active key row, is answered 401 and changes
\* nothing otherwise, and the handler's response and datastore change are
\* those fixed by the key's project, the request and the stored data alone (so
\* a key without 'write' creates, updates and deletes).
C27_PermissionsIgnored ==
  [][RestCall =>
       /\ resp'.ctx.ran <=> \E k \in KeyRows(resp'.ctx.header) : k.isActive
       /\ (~resp'.ctx.ran => resp'.code = "401" /\ dynamicData' = dynamicData)
       /\ (resp'.ctx.ran =>
             \E k \in KeyRows(resp'.ctx.header) :
                resp'.ctx.projectId = k.projectId /\ HandlerOutcome(k.projectId))
       /\ apiKeys' = apiKeys /\ projects' = projects]_vars

\* a key whose permission list is empty has inserted a record
C27_Witness ==
  /\ resp.kind = "rest" /\ resp.code = "201"
  /\ \E k \in apiKeys : k.key = resp.ctx.header /\ k.isActive /\ k.permissions = {}
  /\ \E d \in dynamicData : d.projectId = resp.ctx.projectId

---------------------------------------------------------------------------
(* SpecAll: the router procedures and the REST endpoints together, on a     *)
(* server that starts with the admin accounts and no project, key or data.  *)

NextAll ==
  \/ Next
  \/ \E header \in KeyHeaders : rest_list(header, [limit |-> NoParam, offset |-> NoParam])
  \/ \E header \in KeyHeaders, body \in WriteBodies :
        nextId.dynamicData <= MaxData /\ rest_create(header, body)
  \/ \E header \in KeyHeaders, input \in WriteUpdateInputs : rest_update(header, input)
  \/ \E header \in KeyHeaders, input \in RestDeleteInputs : rest_delete(header, input)
  \/ \E header \in KeyHeaders, query \in RestSearchQueries : rest_search(header, query)
  \/ \E header \in KeyHeaders : rest_project(header)

SpecAll == Init /\ [][NextAll]_vars

\* C28: after any sequence of router and REST operations every API-key row
\* and every dynamic-data row carries the id of a stored project row.
C28_RowsReferenceProjects ==
  /\ \A k \in apiKeys : \E p \in projects : p.id = k.projectId
  /\ \A d \in dynamicData : \E p \in projects : p.id = d.projectId

\* a record inserted over REST, and a key, belong to a project that has since
\* been soft-deleted: its row is still there
C28_Witness ==
  /\ \E p \in projects : ~p.isActive /\ \E k \in apiKeys : k.projectId = p.id
  /\ \E p \in projects : ~p.isActive /\ \E d \in dynamicData : d.projectId = p.id
  /\ resp.kind = "rest" /\ resp.code = "201"

\* C29: no router or REST operation removes a project or API-key row, changes
\* a project's owner id, or sets the active flag of a soft-deleted project or
\* a revoked key back to true.
C29_ActiveFlagsOnlyFall ==
  [][/\ \A p \in projects : \E q \in projects' :
          /\ q.id = p.id
          /\ q.adminUserId = p.adminUserId
          /\ (~p.isActive => ~q.isActive)
     /\ \A k \in apiKeys : \E l \in apiKeys' :
          /\ l.id = k.id
          /\ l.projectId = k.projectId /\ l.key = k.key
          /\ (~k.isActive => ~l.isActive)]_vars

\* a soft-deleted project was renamed by its owner and stayed inactive, and
\* its key is revoked
C29_Witness ==
  /\ resp.kind = "trpc" /\ resp.op = "projects.update" /\ resp.code = "OK"
  /\ \E p \in projects : p.id = resp.input.projectId /\ ~p.isActive /\ p.name = "P2"
  /\ \E k \in apiKeys : ~k.isActive

\* the header names an active key row whose project has been soft-deleted
KeyOfDeletedProject(header) ==
  \E k \in KeyRows(header), p \in projects :
    k.isActive /\ p.id = k.projectId /\ ~p.isActive

\* C30: REST authentication looks at the key row only, not at the project's
\* active flag: a request presenting a still-active key of a soft-deleted
\* project is passed to its handler, and its list, create, update, delete,
\* search (and project-info) operation is carried out as for an active project.
C30_DeletedProjectKeysWork ==
  [][RestCall /\ KeyOfDeletedProject(resp'.ctx.header) =>
       /\ resp'.ctx.ran
       /\ resp'.code # "401"
       /\ \E k \in KeyRows(resp'.ctx.header) :
            resp'.ctx.projectId = k.projectId /\ HandlerOutcome(k.projectId)]_vars

\* a record was inserted over REST into a soft-deleted project
C30_Witness ==
  /\ resp.kind = "rest" /\ resp.code = "201"
  /\ KeyOfDeletedProject(resp.ctx.header)
  /\ \E d \in dynamicData : d.projectId = resp.ctx.projectId

====
